---- MODULE Spec2Model ----
(***************************************************************************)
(* Model of the svg-playground shape engine and of the layer that drives   *)
(* it: the star kernels (starPoints, calculateStep, createPath), the       *)
(* curved-star, custom-star and GIS generators, the parameter service and  *)
(* the preview component.                                                  *)
(*                                                                         *)
(* Numbers.  Lengths and coordinates are integers in hundredths of a user  *)
(* unit, which is the precision toFixed(2) leaves in every point the code  *)
(* produces.  An angle is a pair <<h, q>> standing for h * (180/noids) +   *)
(* q * 90 degrees; cosines and sines come from tables of 4 decimals.  A    *)
(* float that may be NaN or Infinity is a record [kind, v].  Markup is a   *)
(* record of the elements the template strings interpolate; the constant   *)
(* text of the templates is left out.  A call that may throw gives a      *)
(* record [threw, value].                                                  *)
(***************************************************************************)
EXTENDS Integers, Sequences, FiniteSets, TLC

VARIABLES
    call,               \* the engine call made: [op, args, ret]
    star,               \* StarGeneratorService.generateStar in progress
    gis,                \* GisRendererService.generateGisMap in progress
    parametersSubject,  \* SvgGeneratorService.parametersSubject.value
    subscribed,         \* SvgPreviewComponent has subscribed to parameters$
    currentParameters,  \* SvgPreviewComponent.currentParameters (<<>>: null)
    microtasks,         \* continuations of generateSvg awaiting their turn
    svgContent,         \* SvgPreviewComponent.svgContent
    updates             \* calls of updateParameters made so far

vars == <<call, star, gis, parametersSubject, subscribed, currentParameters,
          microtasks, svgContent, updates>>

----------------------------------------------------------------------------
\* Bounds of the model.

\* Largest point count the engine is called with.
MaxNoids == 10
\* Layers of a nested star after which the model stops following the loop.
MaxLayers == 4
\* How many colours of the getRandomColor palette the model draws from.
NumRandomColors == 2
\* Parameter updates in one behaviour of the preview.
MaxUpdates == 2
\* The most turns a spiral is asked for.
MaxTurns == 2

----------------------------------------------------------------------------
\* JavaScript arithmetic.

\* What a call gives: the value it returns, or the TypeError it throws.
Return(v) == [threw |-> FALSE, value |-> v]
TypeError == [threw |-> TRUE, value |-> "TypeError"]

Abs(x) == IF x < 0 THEN -x ELSE x
Sign(x) == IF x < 0 THEN -1 ELSE 1

\* a % b of JavaScript: the remainder takes the sign of the dividend.
JsMod(a, b) == IF a >= 0 THEN a % b ELSE -((-a) % b)

\* a / b rounded to the nearest integer, halves away from zero (toFixed).
RoundDiv(a, b) == Sign(a) * Sign(b) * ((2 * Abs(a) + Abs(b)) \div (2 * Abs(b)))

\* CosTab[n][m+1] = 10^4 * cos(m * 180/n degrees), m in 0..2n-1 (Math.cos, 4 decimals).
CosTab ==
  <<
    <<10000, -10000>>,
    <<10000, 0, -10000, 0>>,
    <<10000, 5000, -5000, -10000, -5000, 5000>>,
    <<10000, 7071, 0, -7071, -10000, -7071, 0, 7071>>,
    <<10000, 8090, 3090, -3090, -8090, -10000, -8090, -3090, 3090, 8090>>,
    <<10000, 8660, 5000, 0, -5000, -8660, -10000, -8660, -5000, 0, 5000, 8660>>,
    <<10000, 9010, 6235, 2225, -2225, -6235, -9010, -10000, -9010, -6235, -2225, 2225, 6235, 9010>>,
    <<10000, 9239, 7071, 3827, 0, -3827, -7071, -9239, -10000, -9239, -7071, -3827, 0, 3827, 7071, 9239>>,
    <<10000, 9397, 7660, 5000, 1736, -1736, -5000, -7660, -9397, -10000, -9397, -7660, -5000, -1736, 1736, 5000, 7660, 9397>>,
    <<10000, 9511, 8090, 5878, 3090, 0, -3090, -5878, -8090, -9511, -10000, -9511, -8090, -5878, -3090, 0, 3090, 5878, 8090, 9511>>,
    <<10000, 9595, 8413, 6549, 4154, 1423, -1423, -4154, -6549, -8413, -9595, -10000, -9595, -8413, -6549, -4154, -1423, 1423, 4154, 6549, 8413, 9595>>,
    <<10000, 9659, 8660, 7071, 5000, 2588, 0, -2588, -5000, -7071, -8660, -9659, -10000, -9659, -8660, -7071, -5000, -2588, 0, 2588, 5000, 7071, 8660, 9659>>,
    <<10000, 9709, 8855, 7485, 5681, 3546, 1205, -1205, -3546, -5681, -7485, -8855, -9709, -10000, -9709, -8855, -7485, -5681, -3546, -1205, 1205, 3546, 5681, 7485, 8855, 9709>>
  >>

\* SinTab[n][m+1] = 10^4 * sin(m * 180/n degrees), m in 0..2n-1 (Math.sin, 4 decimals).
SinTab ==
  <<
    <<0, 0>>,
    <<0, 10000, 0, -10000>>,
    <<0, 8660, 8660, 0, -8660, -8660>>,
    <<0, 7071, 10000, 7071, 0, -7071, -10000, -7071>>,
    <<0, 5878, 9511, 9511, 5878, 0, -5878, -9511, -9511, -5878>>,
    <<0, 5000, 8660, 10000, 8660, 5000, 0, -5000, -8660, -10000, -8660, -5000>>,
    <<0, 4339, 7818, 9749, 9749, 7818, 4339, 0, -4339, -7818, -9749, -9749, -7818, -4339>>,
    <<0, 3827, 7071, 9239, 10000, 9239, 7071, 3827, 0, -3827, -7071, -9239, -10000, -9239, -7071, -3827>>,
    <<0, 3420, 6428, 8660, 9848, 9848, 8660, 6428, 3420, 0, -3420, -6428, -8660, -9848, -9848, -8660, -6428, -3420>>,
    <<0, 3090, 5878, 8090, 9511, 10000, 9511, 8090, 5878, 3090, 0, -3090, -5878, -8090, -9511, -10000, -9511, -8090, -5878, -3090>>,
    <<0, 2817, 5406, 7557, 9096, 9898, 9898, 9096, 7557, 5406, 2817, 0, -2817, -5406, -7557, -9096, -9898, -9898, -9096, -7557, -5406, -2817>>,
    <<0, 2588, 5000, 7071, 8660, 9659, 10000, 9659, 8660, 7071, 5000, 2588, 0, -2588, -5000, -7071, -8660, -9659, -10000, -9659, -8660, -7071, -5000, -2588>>,
    <<0, 2393, 4647, 6631, 8230, 9350, 9927, 9927, 9350, 8230, 6631, 4647, 2393, 0, -2393, -4647, -6631, -8230, -9350, -9927, -9927, -9350, -8230, -6631, -4647, -2393>>
  >>
\* cos and sin, times 10^4, of the angle <<h, q>> = h * (180/n) + q * 90 degrees.
CosAt(n, h, q) ==
    LET m == (h % (2 * n)) + 1
        k == q % 4
    IN  CASE k = 0 -> CosTab[n][m]
          [] k = 1 -> -SinTab[n][m]
          [] k = 2 -> -CosTab[n][m]
          [] k = 3 -> SinTab[n][m]

SinAt(n, h, q) ==
    LET m == (h % (2 * n)) + 1
        k == q % 4
    IN  CASE k = 0 -> SinTab[n][m]
          [] k = 1 -> CosTab[n][m]
          [] k = 2 -> -SinTab[n][m]
          [] k = 3 -> -CosTab[n][m]

\* parseFloat((trig * r + d).toFixed(2)), in hundredths; trig is times 10^4.
Fixed2(trig, r, d) == RoundDiv(trig * r, 10000) + d

\* A float that need not be finite.
Fin(v) == [kind |-> "fin", v |-> v]
NaN == [kind |-> "nan", v |-> 0]
Infinity == [kind |-> "inf", v |-> 0]

\* Math.sqrt of a non-negative integer in 10^-4 units, to the nearest hundredth.
Sqrt(v) ==
    LET f == CHOOSE s \in 0..(v + 1) : s * s <= v /\ (s + 1) * (s + 1) > v
    IN  IF v - f * f > f THEN f + 1 ELSE f

----------------------------------------------------------------------------
\* Text and colours.  A string that holds a colour or a paint is the sequence
\* of its characters: a hex digit is its value 0..15 (the case of a letter is
\* dropped), '#' is Hash, and every other character is Other.  So '#4CAF50'
\* is <<Hash, 4, 12, 10, 15, 5, 0>>.

Hash == 16 + 1
Other == 15 + 1

TextNone == <<Other, Other, Other, 14>>                   \* 'none'
TextOrange == <<Other, Other, 10, Other, Other, 14>>      \* 'orange'
TextNaN == <<Other, 10, Other>>                           \* 'NaN'

\* An optional value: <<>> is undefined, <<v>> is v.  A number that may be
\* NaN is held the same way, with <<>> for NaN.
Undefined == <<>>
Some(v) == <<v>>
Opt(rec, f) == IF f \in DOMAIN rec THEN Some(rec[f]) ELSE Undefined

\* text.replace('#', ''): the first '#' is taken out.
RECURSIVE StripHash(_)
StripHash(text) ==
    IF text = <<>> THEN <<>>
    ELSE IF Head(text) = Hash THEN Tail(text)
    ELSE <<Head(text)>> \o StripHash(Tail(text))

\* text.replace(/^#/, ''): a leading '#' is taken out.
StripLeadingHash(text) ==
    IF text # <<>> /\ Head(text) = Hash THEN Tail(text) ELSE text

\* The longest prefix of text made of hex digits.
RECURSIVE HexPrefix(_)
HexPrefix(text) ==
    IF text = <<>> \/ Head(text) >= 16 THEN <<>>
    ELSE <<Head(text)>> \o HexPrefix(Tail(text))

RECURSIVE HexValue(_)
HexValue(digits) ==
    IF digits = <<>> THEN 0
    ELSE 16 * HexValue(SubSeq(digits, 1, Len(digits) - 1)) + digits[Len(digits)]

\* parseInt(text, 16): the value of the hex digits text starts with, NaN when
\* it starts with none.
parseInt16(text) ==
    IF HexPrefix(text) = <<>> THEN Undefined ELSE Some(HexValue(HexPrefix(text)))

\* n.toString(16) of a non-negative integer.
RECURSIVE toString16(_)
toString16(n) ==
    IF n < 16 THEN <<n>> ELSE Append(toString16(n \div 16), n % 16)

\* The getRandomColor palette that the services share (15 entries, the 14th
\* repeating the 10th); Math.random picks an index.
RandomPalette ==
    <<
       <<17, 15, 15, 6, 11, 6, 11>>,    \* #FF6B6B
       <<17, 4, 14, 12, 13, 12, 4>>,    \* #4ECDC4
       <<17, 4, 5, 11, 7, 13, 1>>,      \* #45B7D1
       <<17, 9, 6, 12, 14, 11, 4>>,     \* #96CEB4
       <<17, 15, 15, 14, 10, 10, 7>>,   \* #FFEAA7
       <<17, 13, 13, 10, 0, 13, 13>>,   \* #DDA0DD
       <<17, 9, 8, 13, 8, 12, 8>>,      \* #98D8C8
       <<17, 15, 7, 13, 12, 6, 15>>,    \* #F7DC6F
       <<17, 11, 11, 8, 15, 12, 14>>,   \* #BB8FCE
       <<17, 8, 5, 12, 1, 14, 9>>,      \* #85C1E9
       <<17, 15, 8, 12, 4, 7, 1>>,      \* #F8C471
       <<17, 8, 2, 14, 0, 10, 10>>,     \* #82E0AA
       <<17, 15, 1, 9, 4, 8, 10>>,      \* #F1948A
       <<17, 8, 5, 12, 1, 14, 9>>,      \* #85C1E9
       <<17, 13, 2, 11, 4, 13, 14>>     \* #D2B4DE
    >>

\* The outcomes of Math.floor(Math.random() * colors.length) the model follows.
RandomDraws == 1..NumRandomColors

getRandomColor(draw) == RandomPalette[draw]

\* Math.round(2.55 * percent) for a percent in -300..300.  The product is a
\* double: 2.55 is stored a little below 2.55, and at the percents of
\* BelowHalf the product comes out just below a half that the exact product
\* would reach (2.55 * 50 is 127.49999999999999), so that Math.round gives
\* one less there.  Math.round rounds a half upwards, also below zero.
BelowHalf == {50, 90, 170, 190}
LightenAmount(percent) ==
    ((255 * percent + 50) \div 100) - (IF percent \in BelowHalf THEN 1 ELSE 0)

\* lightenColor with channels that are not clamped at 255.
lightenColorUnclamped(color, percent) ==
    LET parsed == parseInt16(StripHash(color))
        num == IF parsed = Undefined THEN 0 ELSE parsed[1]
        amt == LightenAmount(percent)
        R == (num \div 65536) + amt
        G == ((num \div 256) % 256) + amt
        B == (num % 256) + amt
        clamp(c) == IF c < 1 THEN 0 ELSE c
    IN  <<Hash>> \o
        Tail(toString16(16777216 + clamp(R) * 65536 + clamp(G) * 256 + clamp(B)))

\* lightenColor, the same text in the curved-star, star, yin-yang and svg
\* services.  The shifts and masks read NaN as 0; num >> 16 keeps whatever
\* lies above the low 16 bits; amt is Math.round(2.55 * percent).
lightenColor(color, percent) ==
    LET parsed == parseInt16(StripHash(color))
        num == IF parsed = Undefined THEN 0 ELSE parsed[1]
        amt == LightenAmount(percent)
        R == (num \div 65536) + amt
        G == ((num \div 256) % 256) + amt
        B == (num % 256) + amt
        clamp(c) == IF c < 255 THEN (IF c < 1 THEN 0 ELSE c) ELSE 255
    IN  <<Hash>> \o
        Tail(toString16(16777216 + clamp(R) * 65536 + clamp(G) * 256 + clamp(B)))

----------------------------------------------------------------------------
\* CurvedStarService.

curvedStarPoints(noids, r, dx, dy, initialAngle) ==
    [j \in 1..noids |->
        LET i == j - 1
            h == 2 * i - initialAngle[1]
            q == -initialAngle[2]
        IN  << Fixed2(CosAt(noids, h, q), r, dx),
               Fixed2(SinAt(noids, h, q), r, dy) >>]

curvedCalculateStepHalf(length) == length \div 2

curvedCalculateStep(length) ==
    IF JsMod(length, 2) = 1
    THEN (length - JsMod(length, 2)) \div 2
    ELSE (length - 1 - JsMod(length - 1, 2)) \div 2

\* The while loop pushes points[(j * step) % length] for j = 0..length-1; the
\* read of points[0][0] that closes the path throws on an empty ring.
curvedCreatePath(points) ==
    LET n == Len(points)
        step == curvedCalculateStep(n)
    IN  IF n = 0
        THEN TypeError
        ELSE Return([j \in 1..(n + 1) |->
                       IF j <= n THEN points[JsMod((j - 1) * step, n) + 1]
                                 ELSE points[1]])

\* The rayFunction arguments of generateCurvedStar.
RayOne(i) == 1
\* The alternation begun at 1 instead of 0.
RayAlternateFromOne(i) == JsMod(i, 2)
RayAlternate(i) == 1 - JsMod(i, 2)

\* The path data as the list it is joined from: the M point, then one arc per
\* further entry of the reordered ring.  ray is optional: ray.toString()
\* throws when it is undefined.
drawCurvedStar(points, rayFunction, ray) ==
    LET created == curvedCreatePath(points)
        curveStar == created.value
    IN  IF created.threw THEN TypeError
        ELSE IF ray = Undefined THEN TypeError
        ELSE Return(
               [ M |-> curveStar[1],
                 A |-> [k \in 1..(Len(curveStar) - 1) |->
                          [ rx |-> ray[1], ry |-> ray[1], rotation |-> 0,
                            large |-> 0, sweep |-> rayFunction[k],
                            to |-> curveStar[k + 1] ]] ])

\* points.filter((_, i) => i % 2 === 0) and ... === 1, on 0-based indices.
EvenPoints(points) == [k \in 1..((Len(points) + 1) \div 2) |-> points[2 * k - 1]]
OddPoints(points) == [k \in 1..(Len(points) \div 2) |-> points[2 * k]]

\* createSvgElement of the curved-star service: the viewBox, the gradient
\* stop lightenColor(fillColor, 40) and one <path> per path-data string.
\* Opacity 0.8 + index * 0.1 is kept in tenths.
curvedCreateSvgElement(paths, params) ==
    [ svg |-> "curved-star",
      viewBoxSize |-> params.viewBoxSize,
      gradientStops |-> << params.fillColor, lightenColor(params.fillColor, 40) >>,
      elements |-> [k \in 1..Len(paths) |->
                      [ tag |-> "path", d |-> paths[k],
                        fill |-> params.fillColor, fillRule |-> params.fillRule,
                        stroke |-> params.strokeColor,
                        strokeWidth |-> params.strokeWidth,
                        opacity |-> 8 + (k - 1) ]] ]

generateCurvedStar(params) ==
    LET points == curvedStarPoints(params.noids, params.radius, params.dx,
                                   params.dy, params.initialAngle)
        ray == Opt(params, "ray")
        \* The arrow functions passed as rayFunction, over the arc indices.
        One == [i \in 1..(params.noids + 1) |-> RayOne(i)]
        Alternate == [i \in 1..(params.noids + 1) |-> RayAlternate(i)]
    IN  IF JsMod(params.noids, 4) = 2
        THEN LET evenPath == drawCurvedStar(EvenPoints(points), One, ray)
                 oddPath == drawCurvedStar(OddPoints(points), One, ray)
             IN  IF evenPath.threw \/ oddPath.threw
                 THEN TypeError
                 ELSE Return(curvedCreateSvgElement(
                                 <<evenPath.value, oddPath.value>>, params))
        ELSE LET path == drawCurvedStar(points, Alternate, ray)
             IN  IF path.threw
                 THEN TypeError
                 ELSE Return(curvedCreateSvgElement(<<path.value>>, params))

----------------------------------------------------------------------------
\* StarGeneratorService.

starPoints(noids, r, dx, dy, initialAngle) ==
    [j \in 1..noids |->
        LET i == j - 1
            h == 2 * i - initialAngle[1]
            q == -initialAngle[2]
        IN  << Fixed2(CosAt(noids, h, q), r, dx),
               Fixed2(SinAt(noids, h, q), r, dy) >>]

\* A step of half the points, rounded down.
calculateStepHalf(noids) == noids \div 2

calculateStep(noids) ==
    IF JsMod(noids, 2) = 1
    THEN (noids - JsMod(noids, 2)) \div 2
    ELSE (noids - 1 - JsMod(noids - 1, 2)) \div 2

\* The reordered ring without the push of the first point that closes it.
createPathOpen(points) ==
    LET n == Len(points)
        step == calculateStep(n)
    IN  IF n = 0
        THEN TypeError
        ELSE Return([j \in 1..n |-> points[JsMod((j - 1) * step, n) + 1]])

createPath(points) ==
    LET n == Len(points)
        step == calculateStep(n)
    IN  IF n = 0
        THEN TypeError
        ELSE Return([j \in 1..(n + 1) |->
                       IF j <= n THEN points[JsMod((j - 1) * step, n) + 1]
                                 ELSE points[1]])

\* One path over the whole ring, whatever noids mod 4.
generateStarPathsWhole(noids, r, dx, dy, initial) ==
    LET One(path) == IF path.threw THEN TypeError ELSE Return(<<path.value>>)
    IN  One(createPath(starPoints(noids, r, dx, dy, initial)))

\* The list of paths, or the TypeError createPath throws.
generateStarPaths(noids, r, dx, dy, initial) ==
    LET Both(even, odd) == IF even.threw \/ odd.threw
                           THEN TypeError
                           ELSE Return(<<even.value, odd.value>>)
        One(path) == IF path.threw THEN TypeError ELSE Return(<<path.value>>)
        From(points) ==
            IF JsMod(noids, 4) = 2
            THEN Both(createPath(EvenPoints(points)), createPath(OddPoints(points)))
            ELSE One(createPath(points))
    IN  From(starPoints(noids, r, dx, dy, initial))

\* 'M x,y L x,y ... Z' as the M point, the L points and the closing Z; the
\* empty string for an empty list.
pointsToPathString(pathPoints) ==
    IF Len(pathPoints) = 0 THEN [ empty |-> TRUE ]
    ELSE [ M |-> pathPoints[1], L |-> Tail(pathPoints), Z |-> TRUE ]

\* lineEquation: y = a x + b through P1 and P2, as the numerators over the
\* common denominator P1.x - P2.x; that denominator is 0 for a vertical line,
\* where the code divides by zero.
lineEquation(P1, P2) ==
    [ an |-> P1[2] - P2[2],
      bn |-> P1[1] * P2[2] - P2[1] * P1[2],
      d |-> P1[1] - P2[1] ]

\* lineIntersection, in hundredths.  With a = an/d and b = bn/d, q is
\* (b2 - b1) / (a1 - a2) = qn/qd and the point is (q, a1 q + b1), each rounded
\* by toFixed(2); a1 q is taken with q to 4 decimals (qf).  A vertical line
\* has a of +-Infinity and b of +-Infinity or NaN, so q is NaN; equal finite
\* slopes give q of +-Infinity or NaN.
lineIntersection(L1, L2) ==
    IF L1.d = 0 \/ L2.d = 0
    THEN [ x |-> NaN, y |-> NaN ]
    ELSE LET qn0 == L2.bn * L1.d - L1.bn * L2.d
             qd0 == L1.an * L2.d - L2.an * L1.d
             qn == IF qd0 < 0 THEN -qn0 ELSE qn0
             qd == Abs(qd0)
         IN  IF qd = 0
             THEN IF qn = 0 THEN [ x |-> NaN, y |-> NaN ]
                  ELSE [ x |-> Infinity,
                         y |-> IF L1.an = 0 THEN NaN ELSE Infinity ]
             ELSE LET qf == (qn \div qd) * 100 + ((qn % qd) * 100) \div qd
                  IN  [ x |-> Fin(RoundDiv(qn, qd)),
                        y |-> Fin(RoundDiv(L1.an * qf + 100 * L1.bn, 100 * L1.d)) ]

calculateIntersection(noids, r, dx, dy, initial, start) ==
    LET Of(points, step) ==
            LET line1StartPoint == JsMod(start, noids)
                line1EndPoint == JsMod(start + step, noids)
                line2StartPoint == JsMod(start + 1, noids)
                line2EndPoint == JsMod(start + 1 + noids - step, noids)
            IN  lineIntersection(
                    lineEquation(points[line1StartPoint + 1], points[line1EndPoint + 1]),
                    lineEquation(points[line2StartPoint + 1], points[line2EndPoint + 1]))
    IN  Of(starPoints(noids, r, dx, dy, initial), calculateStep(noids))

\* calculateRadius: the distance of pt from (dx, dy).
calculateRadius(pt, dx, dy) ==
    IF pt.x.kind = "nan" \/ pt.y.kind = "nan" THEN NaN
    ELSE IF pt.x.kind = "inf" \/ pt.y.kind = "inf" THEN Infinity
    ELSE Fin(Sqrt((pt.x.v - dx) * (pt.x.v - dx) + (pt.y.v - dy) * (pt.y.v - dy)))

\* currentRadius > params.minRadius on floats: false for NaN.
RadiusAbove(currentRadius, minRadius) ==
    CASE currentRadius.kind = "fin" -> currentRadius.v > minRadius
      [] currentRadius.kind = "inf" -> TRUE
      [] currentRadius.kind = "nan" -> FALSE

\* The loop condition without its test of params.nested.
StarLoopConditionUnnested(params, i, currentRadius) ==
    \/ /\ RadiusAbove(currentRadius, params.minRadius)
       /\ params.noids > 4
    \/ i < 1

\* The loop condition without its test of the radius.
StarLoopConditionAnyRadius(params, i, currentRadius) ==
    \/ /\ params.noids > 4
       /\ params.nested
    \/ i < 1

\* The condition of the while loop of generateStar.
StarLoopCondition(params, i, currentRadius) ==
    \/ /\ RadiusAbove(currentRadius, params.minRadius)
       /\ params.noids > 4
       /\ params.nested
    \/ i < 1

\* How many paths generateStarPaths returns for noids points.
StarPathCount(noids) == IF JsMod(noids, 4) = 2 THEN 2 ELSE 1

\* One pass through the body of the while loop, at layer i and radius
\* currentRadius; draws[k] is the getRandomColor outcome for the k-th path.
\* Gives the <path> elements pushed and the radius for the next layer, or
\* threw = TRUE when generateStarPaths throws.  A radius of Infinity puts
\* non-finite numbers in every point and makes the next radius NaN.
StarLoopBody(params, i, currentRadius, draws) ==
    LET alpha == << i - params.initialAngle[1], -params.initialAngle[2] >>
        element(starPath, k) ==
            [ tag |-> "path",
              d |-> IF currentRadius.kind = "fin"
                    THEN pointsToPathString(starPath)
                    ELSE [ nonFinite |-> TRUE ],
              fill |-> IF params.nested THEN getRandomColor(draws[k])
                                        ELSE params.fillColor,
              fillRule |-> params.fillRule,
              stroke |-> params.strokeColor,
              strokeWidth |-> params.strokeWidth,
              opacity |-> 8 + i ]
        intersectionPoint ==
            IF currentRadius.kind = "fin"
            THEN calculateIntersection(params.noids, currentRadius.v, params.dx,
                                       params.dy, params.initialAngle,
                                       params.startVertex)
            ELSE [ x |-> NaN, y |-> NaN ]
        Pass(generated) ==
            IF generated.threw
            THEN [ threw |-> TRUE, paths |-> <<>>, radius |-> currentRadius ]
            ELSE [ threw |-> FALSE,
                   paths |-> [k \in 1..Len(generated.value) |->
                                element(generated.value[k], k)],
                   radius |-> IF params.nested
                              THEN calculateRadius(intersectionPoint, params.dx,
                                                   params.dy)
                              ELSE currentRadius ]
    IN  Pass(IF currentRadius.kind = "fin"
             THEN generateStarPaths(params.noids, currentRadius.v, params.dx,
                                    params.dy, alpha)
             ELSE IF params.noids = 0 THEN TypeError
             ELSE Return([k \in 1..StarPathCount(params.noids) |-> <<>>]))

\* createSvgElement of the star service.
starCreateSvgElement(paths, params) ==
    [ svg |-> "custom-star",
      viewBoxSize |-> params.viewBoxSize,
      gradientStops |-> << params.fillColor, lightenColor(params.fillColor, 40) >>,
      elements |-> paths,
      spin |-> params.spinDuration ]

\* generateStar from layer i on, with the paths pushed so far; rnd[n] is the
\* n-th outcome of getRandomColor.  Gives [ret, layers, capped]: the markup
\* or the TypeError, and the number of passes through the loop body.  The
\* model follows MaxLayers passes and then sets capped; ret means nothing then.

RECURSIVE generateStarFrom(_, _, _, _, _)
generateStarFrom(params, i, currentRadius, paths, rnd) ==
    IF ~StarLoopCondition(params, i, currentRadius)
    THEN [ ret |-> Return(starCreateSvgElement(paths, params)), layers |-> i,
           capped |-> FALSE ]
    ELSE IF i >= MaxLayers
    THEN [ ret |-> TypeError, layers |-> i, capped |-> TRUE ]
    ELSE LET used == Len(paths)
             draws == [k \in 1..StarPathCount(params.noids) |->
                         IF used + k \in DOMAIN rnd THEN rnd[used + k] ELSE 1]
             After(pass) ==
                 IF pass.threw
                 THEN [ ret |-> TypeError, layers |-> i + 1, capped |-> FALSE ]
                 ELSE generateStarFrom(params, i + 1, pass.radius,
                                       paths \o pass.paths, rnd)
         IN  After(StarLoopBody(params, i, currentRadius, draws))

generateStar(params, rnd) ==
    generateStarFrom(params, 0, Fin(params.radius), <<>>, rnd)

\* The getRandomColor calls generateStar makes for params: one per path of
\* every layer when nested, none otherwise.
StarDrawCount(params) ==
    IF params.nested
    THEN generateStar(params, <<>>).layers * StarPathCount(params.noids)
    ELSE 0

----------------------------------------------------------------------------
\* Exact fractions, for the GIS transform (which rounds nothing).  A number
\* is [kind |-> "fin", n, d] in lowest terms with d > 0, or NonFinite for NaN
\* and the infinities that a division by zero leaves.

RECURSIVE Gcd(_, _)
Gcd(a, b) == IF b = 0 THEN a ELSE Gcd(b, a % b)

Rat(n, d) ==
    LET g == Gcd(Abs(n), Abs(d))
    IN  [ kind |-> "fin", n |-> Sign(d) * (n \div g), d |-> Abs(d) \div g ]

NonFinite == [ kind |-> "nonfinite", n |-> 0, d |-> 1 ]

IsFinite(a) == a.kind = "fin"

RAdd(a, b) ==
    IF IsFinite(a) /\ IsFinite(b) THEN Rat(a.n * b.d + b.n * a.d, a.d * b.d)
    ELSE NonFinite
RSub(a, b) ==
    IF IsFinite(a) /\ IsFinite(b) THEN Rat(a.n * b.d - b.n * a.d, a.d * b.d)
    ELSE NonFinite
RMul(a, b) ==
    IF IsFinite(a) /\ IsFinite(b) THEN Rat(a.n * b.n, a.d * b.d) ELSE NonFinite
RDiv(a, b) ==
    IF IsFinite(a) /\ IsFinite(b) /\ b.n # 0 THEN Rat(a.n * b.d, a.d * b.n)
    ELSE NonFinite
RNeg(a) == IF IsFinite(a) THEN Rat(-a.n, a.d) ELSE NonFinite
RLess(a, b) == IsFinite(a) /\ IsFinite(b) /\ a.n * b.d < b.n * a.d
\* Math.min and Math.max: NaN when either side is NaN.
RMin(a, b) ==
    IF IsFinite(a) /\ IsFinite(b) THEN (IF RLess(b, a) THEN b ELSE a) ELSE NonFinite
RMax(a, b) ==
    IF IsFinite(a) /\ IsFinite(b) THEN (IF RLess(a, b) THEN b ELSE a) ELSE NonFinite
\* x.toFixed(3), in thousandths.
ToFixed3(a) ==
    IF IsFinite(a) THEN [ kind |-> "fin", n |-> RoundDiv(a.n * 1000, a.d), d |-> 1000 ]
    ELSE NonFinite

----------------------------------------------------------------------------
\* GisRendererService.  A GeoJSON document is a record that holds the
\* properties the document has: a missing property is a missing field.

\* curr.geometry.coordinates[0][0]: the first ring of the first polygon, or
\* the TypeError that reading through a missing property throws.
FirstRing(feature) ==
    IF "geometry" \notin DOMAIN feature THEN TypeError
    ELSE IF "coordinates" \notin DOMAIN feature.geometry THEN TypeError
    ELSE Return(feature.geometry.coordinates[1][1])

RECURSIVE BoundsOver(_, _)
\* The forEach of calculateBoundingBox over one ring, from bounds prev;
\* a bound is <<>> while it is still +-Infinity.
BoundsOver(ring, prev) ==
    IF ring = <<>> THEN prev
    ELSE LET point == Head(ring)
             lower(b, v) == IF b = <<>> \/ v < b[1] THEN <<v>> ELSE b
             upper(b, v) == IF b = <<>> \/ v > b[1] THEN <<v>> ELSE b
         IN  BoundsOver(Tail(ring),
                        << lower(prev[1], point[1]), lower(prev[2], point[2]),
                           upper(prev[3], point[1]), upper(prev[4], point[2]) >>)

RECURSIVE ReduceBounds(_, _)
ReduceBounds(features, prev) ==
    IF features = <<>> THEN Return(prev)
    ELSE LET ring == FirstRing(Head(features))
         IN  IF ring.threw THEN TypeError
             ELSE ReduceBounds(Tail(features), BoundsOver(ring.value, prev))

\* A bounding box from its four numbers.
BoundingBoxOf(xMin, yMin, xMax, yMax) ==
    [ xMin |-> xMin, yMin |-> yMin, xMax |-> xMax, yMax |-> yMax,
      centerX |-> RDiv(RAdd(xMin, xMax), Rat(2, 1)),
      centerY |-> RDiv(RAdd(yMin, yMax), Rat(2, 1)) ]

\* calculateBoundingBox; features is optional, and undefined.reduce throws.
calculateBoundingBox(features) ==
    LET bound(b) == IF b = <<>> THEN NonFinite ELSE Rat(b[1], 1)
        Of(reduced) ==
            IF reduced.threw THEN TypeError
            ELSE Return(BoundingBoxOf(bound(reduced.value[1]), bound(reduced.value[2]),
                                      bound(reduced.value[3]), bound(reduced.value[4])))
    IN  IF features = Undefined THEN TypeError
        ELSE Of(ReduceBounds(features[1], << <<>>, <<>>, <<>>, <<>> >>))

\* generateRectanglePoints: the four corners about the middle of bbox, each
\* number through toFixed(3).
generateRectanglePoints(bbox) ==
    LET xMin == bbox[1]
        yMin == bbox[2]
        xMax == bbox[3]
        yMax == bbox[4]
        halfX == RDiv(RAdd(xMin, xMax), Rat(2, 1))
        halfY == RDiv(RAdd(yMin, yMax), Rat(2, 1))
    IN  << << ToFixed3(RSub(xMin, halfX)), ToFixed3(RSub(yMin, halfY)) >>,
           << ToFixed3(RSub(xMin, halfX)), ToFixed3(RSub(yMax, halfY)) >>,
           << ToFixed3(RSub(xMax, halfX)), ToFixed3(RSub(yMax, halfY)) >>,
           << ToFixed3(RSub(xMax, halfX)), ToFixed3(RSub(yMin, halfY)) >> >>

applyScalingFunction(width, height, scalingFunction) ==
    CASE scalingFunction = "min" -> RMin(width, height)
      [] scalingFunction = "max" -> RMax(width, height)
      [] scalingFunction = "width" -> width
      [] scalingFunction = "height" -> height
      [] OTHER -> RMin(width, height)

\* The transform taken from the corner of the bounding box, not its centre.
transformCoordinatesFromCorner(coordinates, boundingBox, scale, translateX, translateY) ==
    [k \in 1..Len(coordinates) |->
        << RAdd(RMul(RSub(Rat(coordinates[k][1], 1), boundingBox.xMin), scale),
                translateX),
           RAdd(RMul(RNeg(RSub(Rat(coordinates[k][2], 1), boundingBox.yMin)), scale),
                translateY) >>]

transformCoordinates(coordinates, boundingBox, scale, translateX, translateY) ==
    [k \in 1..Len(coordinates) |->
        << RAdd(RMul(RSub(Rat(coordinates[k][1], 1), boundingBox.centerX), scale),
                translateX),
           RAdd(RMul(RNeg(RSub(Rat(coordinates[k][2], 1), boundingBox.centerY)), scale),
                translateY) >>]


RECURSIVE FeaturePolygons(_, _, _, _, _, _, _)
\* The forEach of generateGeoJsonPaths from the feature at index (0-based)
\* on, paths holding what was pushed before; draws[k] is the getRandomColor
\* outcome for the k-th feature.  transformed counts the features whose
\* coordinates went through transformCoordinates.
FeaturePolygons(features, index, boundingBox, scale, params, draws, paths) ==
    IF index >= Len(features)
    THEN [ threw |-> FALSE, value |-> paths, transformed |-> index ]
    ELSE LET feature == features[index + 1]
             coordinates == FirstRing(feature)
             transformedCoords ==
                 transformCoordinates(coordinates.value, boundingBox, scale,
                                      params.translateX, params.translateY)
             fillColor ==
                 IF params.useRandomColors
                 THEN getRandomColor(draws[index + 1])
                 ELSE params.fillColors[JsMod(index, Len(params.fillColors)) + 1]
             polygon == [ tag |-> "polygon", points |-> transformedCoords,
                          fill |-> fillColor, stroke |-> params.strokeColor,
                          strokeWidth |-> params.strokeWidth, opacity |-> 8 ]
         IN  IF coordinates.threw
             THEN [ threw |-> TRUE, value |-> paths, transformed |-> index ]
             ELSE FeaturePolygons(features, index + 1, boundingBox, scale, params,
                                  draws, Append(paths, polygon))

\* generateGeoJsonPaths.  Besides what the call gives (the list of elements,
\* or the TypeError), the result records what was done to the data on the
\* way: boundingBox is "supplied", "calculated" or "threw", and transformed
\* counts the features transformed.
generateGeoJsonPaths(geoJsonData, params, draws) ==
    LET supplied == Opt(geoJsonData, "bbox")
        features == Opt(geoJsonData, "features")
        dx == Rat(280, 1)
        dy == Rat(280, 1)
        Outline(scale) ==
            IF params.showBoundingBox
            THEN << [ tag |-> "polygon",
                      points |-> generateRectanglePoints(
                          [index \in 1..4 |-> RAdd(RMul(Rat(index - 1, 1), scale), dx)]),
                      fill |-> TextNone,
                      stroke |-> params.boundingBoxColor,
                      strokeWidth |-> params.strokeWidth, opacity |-> 10 ] >>
            ELSE <<>>
        Finish(how, outline, polygons) ==
            IF features = Undefined
            THEN [ threw |-> TRUE, value |-> outline, boundingBox |-> how,
                   transformed |-> 0 ]
            ELSE [ threw |-> polygons.threw, value |-> polygons.value,
                   boundingBox |-> how, transformed |-> polygons.transformed ]
        WithScale(boundingBox, how, scale) ==
            Finish(how, Outline(scale),
                   FeaturePolygons(features[1], 0, boundingBox, scale, params, draws,
                                   Outline(scale)))
        WithBox(boundingBox, how) ==
            WithScale(boundingBox, how,
                RMul(applyScalingFunction(
                         RDiv(dx, RSub(boundingBox.xMax, boundingBox.centerX)),
                         RDiv(dy, RSub(boundingBox.yMax, boundingBox.centerY)),
                         params.scalingFunction),
                     params.scale))
        Calculated(calculated) ==
            IF calculated.threw
            THEN [ threw |-> TRUE, value |-> <<>>, boundingBox |-> "threw",
                   transformed |-> 0 ]
            ELSE WithBox(calculated.value, "calculated")
    IN  IF supplied # Undefined
        THEN WithBox(BoundingBoxOf(Rat(supplied[1][1], 1), Rat(supplied[1][2], 1),
                                   Rat(supplied[1][3], 1), Rat(supplied[1][4], 1)),
                     "supplied")
        ELSE Calculated(calculateBoundingBox(features))

\* createSvgElement of the GIS service.
gisCreateSvgElement(paths, params) ==
    [ svg |-> "gis", viewBoxSize |-> params.viewBoxSize, elements |-> paths ]

\* createErrorSvg: the error-state markup, with the message it shows.
createErrorSvg(errorMessage) ==
    [ svg |-> "gis-error", message |-> errorMessage ]

\* generateGisMapFromData: the markup or the TypeError, with the record of
\* what generateGeoJsonPaths did.
generateGisMapFromData(geoJsonData, params, draws) ==
    LET Made(paths) ==
            [ threw |-> paths.threw,
              value |-> IF paths.threw THEN TypeError.value
                        ELSE gisCreateSvgElement(paths.value, params),
              boundingBox |-> paths.boundingBox,
              transformed |-> paths.transformed ]
    IN  Made(generateGeoJsonPaths(geoJsonData, params, draws))

validateGeoJsonData(data) ==
    /\ "type" \in DOMAIN data
    /\ data.type = "FeatureCollection"
    /\ "features" \in DOMAIN data
    /\ \A k \in 1..Len(data.features) :
          /\ "geometry" \in DOMAIN data.features[k]
          /\ "coordinates" \in DOMAIN data.features[k].geometry

generateSampleGeoJson ==
    [ type |-> "FeatureCollection",
      bbox |-> <<-2, -2, 2, 2>>,
      features |->
        << [ type |-> "Feature",
             geometry |-> [ type |-> "Polygon",
                            coordinates |->
                              << << << <<-1, -1>>, <<-1, 1>>, <<0, 1>>,
                                       <<0, -1>>, <<-1, -1>> >> >> >> ],
             properties |-> [ name |-> "Rectangle 1" ] ],
           [ type |-> "Feature",
             geometry |-> [ type |-> "Polygon",
                            coordinates |->
                              << << << <<0, -1>>, <<0, 1>>, <<1, 1>>,
                                       <<1, -1>>, <<0, -1>> >> >> >> ],
             properties |-> [ name |-> "Rectangle 2" ] ] >> ]

----------------------------------------------------------------------------
\* YinYangGeneratorService.

yinStarPoints(noids, r, dx, dy, initialAngle) ==
    [j \in 1..noids |->
        LET i == j - 1
            h == 2 * i - initialAngle[1]
            q == -initialAngle[2]
        IN  << Fixed2(CosAt(noids, h, q), r, dx),
               Fixed2(SinAt(noids, h, q), r, dy) >>]

\* hexToRgb: the channels as numbers; the shifts and masks read NaN as 0.
hexToRgb(hex) ==
    LET Expanded(stripped) ==
            IF Len(stripped) = 3
            THEN << stripped[1], stripped[1], stripped[2], stripped[2],
                    stripped[3], stripped[3] >>
            ELSE stripped
        Number(parsed) == IF parsed = Undefined THEN 0 ELSE parsed[1]
        Channels(int) == << (int \div 65536) % 256, (int \div 256) % 256, int % 256 >>
    IN  Channels(Number(parseInt16(Expanded(StripLeadingHash(hex)))))

\* The channel text without the padStart.
ChannelTextUnpadded(c) ==
    IF c = Undefined THEN TextNaN ELSE toString16(c[1])

\* c.toString(16).padStart(2, '0') of a channel that may be NaN.
ChannelText(c) ==
    IF c = Undefined THEN TextNaN
    ELSE IF c[1] < 16 THEN <<0>> \o toString16(c[1])
    ELSE toString16(c[1])

\* rgbToHex of three channels, each a number or NaN.
rgbToHex(rgb) ==
    <<Hash>> \o ChannelText(rgb[1]) \o ChannelText(rgb[2]) \o ChannelText(rgb[3])

\* reverseColor: 255 minus each pair of digits; a pair that parses to NaN
\* gives the text 'NaN'.
reverseColor(hex) ==
    LET stripped == StripHash(hex)
        pair(from, to) == parseInt16(SubSeq(stripped, from, IF to <= Len(stripped)
                                                             THEN to ELSE Len(stripped)))
        inverse(p) == IF p = Undefined THEN Undefined ELSE Some(255 - p[1])
    IN  <<Hash>> \o ChannelText(inverse(pair(1, 2))) \o ChannelText(inverse(pair(3, 4)))
                 \o ChannelText(inverse(pair(5, 6)))

\* The interpolation with t = i / n.
GradientChannelOverN(a, b, i, n) ==
    Some((2 * (a * n + (b - a) * i) + n) \div (2 * n))

\* Math.round(a + (b - a) * i / (n - 1)): halves go up.  NaN when n = 1,
\* where t is 0/0.
GradientChannel(a, b, i, n) ==
    IF n = 1 THEN Undefined
    ELSE Some((2 * (a * (n - 1) + (b - a) * i) + (n - 1)) \div (2 * (n - 1)))

gradientColors(n, color1, color2) ==
    LET Between(rgb1, rgb2) ==
            [j \in 1..n |->
                rgbToHex(<< GradientChannel(rgb1[1], rgb2[1], j - 1, n),
                            GradientChannel(rgb1[2], rgb2[2], j - 1, n),
                            GradientChannel(rgb1[3], rgb2[3], j - 1, n) >>)]
    IN  Between(hexToRgb(color1), hexToRgb(color2))

\* generateYinYangPaths: the main circle, one lobe path per ring point, one
\* small circle per ring point.  The second ring has radius 0, so each of its
\* points is the centre whatever the 45 degrees of its initial angle.  Halved
\* coordinates and the radii are kept in hundredths, doubled where halved.
generateYinYangPaths(params) ==
    LET yinColor == params.baseColor
        circle == [ tag |-> "circle", cx |-> params.dx, cy |-> params.dy,
                    r |-> params.radius, fill |-> TextOrange,
                    stroke |-> params.strokeColor,
                    strokeWidth |-> params.strokeWidth ]
        lobe(points, rotatedPoints, colors, index) ==
            LET nextIndex == JsMod(index + 1, params.noids)
                point == points[index + 1]
            IN  [ tag |-> "path",
                  d |-> << [ M |-> point, rx2 |-> params.radius, sweep |-> 1,
                             to |-> rotatedPoints[index + 1] ],
                           [ M |-> rotatedPoints[nextIndex + 1],
                             rx2 |-> params.radius, sweep |-> 0,
                             to |-> points[nextIndex + 1] ],
                           [ M |-> points[nextIndex + 1],
                             rx2 |-> -2 * params.radius, sweep |-> 0,
                             to |-> point ] >>,
                  fill |-> colors[index + 1], stroke |-> colors[index + 1],
                  strokeWidth |-> params.strokeWidth ]
        small(points, colors, index) ==
            [ tag |-> "circle", cx2 |-> points[index + 1][1],
              cy2 |-> points[index + 1][2], r4 |-> params.radius,
              fill |-> colors[index + 1], stroke |-> params.strokeColor,
              strokeWidth |-> params.strokeWidth ]
        Paths(points, rotatedPoints, colors) ==
            <<circle>>
            \o [k \in 1..params.noids |-> lobe(points, rotatedPoints, colors, k - 1)]
            \o [k \in 1..params.noids |-> small(points, colors, k - 1)]
    IN  Paths(yinStarPoints(params.noids, params.radius, params.dx, params.dy,
                            params.initialAngle),
              yinStarPoints(params.noids, 0, params.dx, params.dy, <<0, 0>>),
              gradientColors(params.noids, yinColor, reverseColor(yinColor)))

yinCreateSvgElement(paths, params) ==
    [ svg |-> "yinyang",
      viewBoxSize |-> params.viewBoxSize,
      gradientStops |-> << params.baseColor, reverseColor(params.baseColor),
                           lightenColor(params.baseColor, 40) >>,
      elements |-> paths,
      spin |-> params.spinDuration ]

generateYinYang(params) ==
    yinCreateSvgElement(generateYinYangPaths(params), params)

----------------------------------------------------------------------------
\* SvgGeneratorService.  SvgParameters is a record of all 23 fields; lengths
\* (size, radius, innerRadius, minRadius, centerX, centerY) are in hundredths,
\* rayRatio in hundredths, angle in degrees (a multiple of 90), spinDuration
\* is optional (<<>> for false), a colour is its text.

ColorGreen == <<Hash, 4, 12, 10, 15, 5, 0>>       \* '#4CAF50'
ColorDark == <<Hash, 3, 3, 3, 3, 3, 3>>           \* '#333333'

defaultSvgParameters ==
    [ edgeCount |-> 6, angle |-> 0, size |-> 30000,
      strokeWidth |-> 2, strokeColor |-> ColorDark, fillColor |-> ColorGreen,
      centerX |-> 0, centerY |-> 0, shape |-> "custom-star",
      innerRadius |-> 5000, spiralTurns |-> 3, rayRatio |-> 150,
      radius |-> 28000, curvedNoids |-> 8,
      minRadius |-> 5000, startVertex |-> 0, spinDuration |-> <<>>,
      nested |-> FALSE,
      useGradient |-> TRUE,
      gisSourceUrl |-> "", gisScalingFunction |-> "min",
      showBoundingBox |-> TRUE, useRandomGisColors |-> TRUE ]

\* { ...currentParams, ...parameters }
MergeKeepCurrent(currentParams, parameters) == currentParams @@ parameters

Merge(currentParams, parameters) == parameters @@ currentParams

\* x || y on numbers: 0 is falsy.
OrNumber(x, y) == IF x = 0 THEN y ELSE x

\* An angle of deg degrees as the pair <<h, q>>.
AngleOf(deg) == <<0, deg \div 90>>

\* Math.max
Max(a, b) == IF a > b THEN a ELSE b

\* 'M p0 L p1 L ... Z' of generatePolygon and generateStar: points[0] is
\* undefined for an empty list, and slice(1) is what follows it.
ClosedPath(points) ==
    [ M |-> IF points = <<>> THEN Undefined ELSE Some(points[1]),
      L |-> IF points = <<>> THEN <<>> ELSE Tail(points),
      Z |-> TRUE ]

\* The polygon with the half step of the two-radius star between its points.
generatePolygonHalfStep(params) ==
    ClosedPath([j \in 1..params.edgeCount |->
        LET i == j - 1
            q == AngleOf(params.angle)[2]
        IN  << Fixed2(CosAt(params.edgeCount, i, q), params.size, params.centerX),
               Fixed2(SinAt(params.edgeCount, i, q), params.size, params.centerY) >>])

generatePolygon(params) ==
    ClosedPath([j \in 1..params.edgeCount |->
        LET i == j - 1
            q == AngleOf(params.angle)[2]
        IN  << Fixed2(CosAt(params.edgeCount, 2 * i, q), params.size, params.centerX),
               Fixed2(SinAt(params.edgeCount, 2 * i, q), params.size, params.centerY) >>])

svgGenerateStar(params) ==
    LET outerRadius == params.size
        innerRadius == OrNumber(params.innerRadius, params.size \div 2)
    IN  ClosedPath([j \in 1..(params.edgeCount * 2) |->
            LET i == j - 1
                q == AngleOf(params.angle)[2]
                radius == IF JsMod(i, 2) = 0 THEN outerRadius ELSE innerRadius
            IN  << Fixed2(CosAt(params.edgeCount, i, q), radius, params.centerX),
                   Fixed2(SinAt(params.edgeCount, i, q), radius, params.centerY) >>])

generateCircle(params) ==
    [ M |-> << params.centerX - params.size, params.centerY >>,
      A |-> << [ rx |-> params.size, ry |-> params.size, rotation |-> 0,
                 large |-> 1, sweep |-> 1,
                 to |-> << params.centerX + params.size, params.centerY >> ],
               [ rx |-> params.size, ry |-> params.size, rotation |-> 0,
                 large |-> 1, sweep |-> 1,
                 to |-> << params.centerX - params.size, params.centerY >> ] >>,
      Z |-> TRUE ]

\* The spiral whose loop stops before i = steps.
generateSpiralExclusive(params) ==
    LET turns == OrNumber(params.spiralTurns, 3)
        steps == turns * 20
        maxRadius == params.size
        q == AngleOf(params.angle)[2]
        sample(i) ==
            LET radius == RoundDiv(maxRadius * i, steps)
            IN  << Fixed2(CosAt(10, i, q), radius, params.centerX),
                   Fixed2(SinAt(10, i, q), radius, params.centerY) >>
    IN  [ M |-> sample(0), L |-> [i \in 1..(steps - 1) |-> sample(i)], Z |-> FALSE ]

\* generateSpiral: i runs from 0 to steps inclusive; the angle advances by
\* 2 pi / 20 = 180/10 degrees a sample; the radius is taken to hundredths.
generateSpiral(params) ==
    LET turns == OrNumber(params.spiralTurns, 3)
        steps == turns * 20
        maxRadius == params.size
        q == AngleOf(params.angle)[2]
        sample(i) ==
            LET radius == RoundDiv(maxRadius * i, steps)
            IN  << Fixed2(CosAt(10, i, q), radius, params.centerX),
                   Fixed2(SinAt(10, i, q), radius, params.centerY) >>
    IN  [ M |-> sample(0), L |-> [i \in 1..steps |-> sample(i)], Z |-> FALSE ]

\* generateSvgPath for the shapes generateSvgElement sends to it.
generateSvgPath(params) ==
    CASE params.shape = "polygon" -> generatePolygon(params)
      [] params.shape = "star" -> svgGenerateStar(params)
      [] params.shape = "circle" -> generateCircle(params)
      [] params.shape = "spiral" -> generateSpiral(params)
      [] OTHER -> generatePolygon(params)

\* The parameter records generateSvgElement builds for the generators.
CurvedParamsOf(params) ==
    [ noids |-> OrNumber(OrNumber(params.curvedNoids, params.edgeCount), 8),
      radius |-> params.radius,
      rayRatio |-> OrNumber(params.rayRatio, 150),
      viewBoxSize |-> params.size,
      dx |-> params.centerX, dy |-> params.centerY,
      initialAngle |-> AngleOf(params.angle),
      fillColor |-> params.fillColor, strokeColor |-> params.strokeColor,
      strokeWidth |-> params.strokeWidth, fillRule |-> "evenodd" ]

StarParamsOf(params) ==
    [ noids |-> params.edgeCount,
      radius |-> params.size,
      minRadius |-> OrNumber(params.minRadius, 5000),
      dx |-> params.centerX, dy |-> params.centerY,
      initialAngle |-> AngleOf(params.angle),
      startVertex |-> OrNumber(params.startVertex, 0),
      nested |-> (params.nested \/ FALSE),
      spinDuration |-> params.spinDuration,
      fillColor |-> params.fillColor, strokeColor |-> params.strokeColor,
      strokeWidth |-> params.strokeWidth, fillRule |-> "evenodd",
      viewBoxSize |-> Max((params.size * 5) \div 2, 60000) ]

YinYangParamsOf(params) ==
    [ noids |-> params.edgeCount,
      radius |-> params.size,
      dx |-> params.centerX, dy |-> params.centerY,
      initialAngle |-> AngleOf(params.angle),
      spinDuration |-> params.spinDuration,
      baseColor |-> params.fillColor, strokeColor |-> params.strokeColor,
      strokeWidth |-> params.strokeWidth,
      useGradient |-> (params.useGradient \/ TRUE),
      viewBoxSize |-> Max((params.size * 5) \div 2, 60000) ]

GisParamsOf(params) ==
    [ sourceUrl |-> "",
      scalingFunction |-> IF params.gisScalingFunction = "" THEN "min"
                          ELSE params.gisScalingFunction,
      translateX |-> Rat(params.centerX, 100),
      translateY |-> Rat(params.centerY, 100),
      scale |-> Rat(params.size, 20000),
      strokeColor |-> params.strokeColor, strokeWidth |-> params.strokeWidth,
      fillColors |-> << params.fillColor >>,
      showBoundingBox |-> (params.showBoundingBox \/ TRUE),
      boundingBoxColor |-> params.strokeColor,
      viewBoxSize |-> Max((params.size * 5) \div 2, 60000),
      useRandomColors |-> (params.useRandomGisColors \/ TRUE) ]

\* The getRandomColor calls generateSvgElement leads to for params.
DrawCount(params) ==
    CASE params.shape = "custom-star" -> StarDrawCount(StarParamsOf(params))
      [] params.shape = "gis" /\ params.gisSourceUrl = "" ->
            Len(generateSampleGeoJson.features)
      [] OTHER -> 0

\* generateSvgElement on the parameter record params, rnd[n] being the n-th
\* outcome of getRandomColor: the markup, or the TypeError.
generateSvgElement(params, rnd) ==
    CASE params.shape = "curved-star" ->
            generateCurvedStar(CurvedParamsOf(params))
      [] params.shape = "custom-star" ->
            generateStar(StarParamsOf(params), rnd).ret
      [] params.shape = "yinyang" ->
            Return(generateYinYang(YinYangParamsOf(params)))
      [] params.shape = "gis" ->
            IF params.gisSourceUrl = ""
            THEN LET Plain(made) == [ threw |-> made.threw, value |-> made.value ]
                 IN  Plain(generateGisMapFromData(generateSampleGeoJson,
                                                  GisParamsOf(params), rnd))
            ELSE Return([ svg |-> "gis-loading", fill |-> params.fillColor,
                          stroke |-> params.strokeColor,
                          url |-> params.gisSourceUrl ])
      [] OTHER ->
            Return([ svg |-> "shape",
                     viewBoxSize |-> Max(params.centerX + params.size + 5000,
                                         params.centerY + params.size + 5000) * 2,
                     gradientStops |-> << params.fillColor,
                                          lightenColor(params.fillColor, 40) >>,
                     elements |-> << [ tag |-> "path", d |-> generateSvgPath(params),
                                       stroke |-> params.strokeColor,
                                       strokeWidth |-> params.strokeWidth ] >> ])

defaultGisParameters ==
    [ sourceUrl |-> "",
      scalingFunction |-> "min",
      translateX |-> Rat(0, 1), translateY |-> Rat(0, 1),
      scale |-> Rat(1, 1),
      strokeColor |-> ColorDark, strokeWidth |-> 1,
      fillColors |-> << ColorGreen,
                        <<Hash, 2, 1, 9, 6, 15, 3>>,
                        <<Hash, 15, 15, 9, 8, 0, 0>>,
                        <<Hash, 14, 9, 1, 14, 6, 3>>,
                        <<Hash, 9, 12, 2, 7, 11, 0>> >>,
      showBoundingBox |-> TRUE,
      boundingBoxColor |-> <<Hash, 15, 15, 0, 0, 0, 0>>,
      viewBoxSize |-> 60000,
      useRandomColors |-> TRUE ]

----------------------------------------------------------------------------
\* The arguments the services are called with.

Noids == 0..MaxNoids
Angles == { <<0, 0>>, <<0, 1>> }
ColorRed == <<Hash, 15, 15, 0, 0, 0, 0>>

\* CurvedStarParameters, with and without the ray property.
CurvedStarInputs ==
    LET base(n, a) ==
            [ noids |-> n, radius |-> 28000, viewBoxSize |-> 30000,
              dx |-> 0, dy |-> 0, initialAngle |-> a,
              fillColor |-> ColorGreen, strokeColor |-> ColorDark,
              strokeWidth |-> 2, fillRule |-> "evenodd" ]
    IN  { Merge(base(n, a), [ ray |-> 150 ]) : n \in Noids, a \in Angles }
        \cup { Merge(base(n, a), [ rayRatio |-> 150 ]) : n \in Noids, a \in Angles }

\* StarGeneratorParameters.  The radius is small to keep the products of
\* lineIntersection within 32 bits.  The second set holds nested stars of
\* radius 0.05 with a minimum radius of zero and below.
StarInputs ==
    { [ noids |-> n, radius |-> 500, minRadius |-> m, dx |-> 0, dy |-> 0,
        initialAngle |-> a, startVertex |-> s, nested |-> b,
        spinDuration |-> <<>>, fillColor |-> c, strokeColor |-> ColorDark,
        strokeWidth |-> 2, fillRule |-> "evenodd", viewBoxSize |-> 60000 ] :
      n \in Noids, m \in {100, 600}, a \in Angles, s \in {0, 1},
      b \in BOOLEAN, c \in {ColorGreen, ColorRed} }
    \cup
    { [ noids |-> n, radius |-> 5, minRadius |-> m, dx |-> 0, dy |-> 0,
        initialAngle |-> a, startVertex |-> s, nested |-> TRUE,
        spinDuration |-> <<>>, fillColor |-> ColorGreen, strokeColor |-> ColorDark,
        strokeWidth |-> 2, fillRule |-> "evenodd", viewBoxSize |-> 60000 ] :
      n \in Noids, m \in {0, -100}, a \in Angles, s \in {0, 1} }

YinYangInputs ==
    { [ noids |-> n, radius |-> 28000, dx |-> 0, dy |-> 0,
        initialAngle |-> a, spinDuration |-> <<>>, baseColor |-> ColorGreen,
        strokeColor |-> ColorDark, strokeWidth |-> 2, useGradient |-> g,
        viewBoxSize |-> 60000 ] :
      n \in Noids, a \in Angles, g \in BOOLEAN }

\* GeoJSON documents: the sample, and what is left of it when the bbox, the
\* type, the features or the coordinates of the second feature are taken away.
Without(rec, field) == [f \in (DOMAIN rec) \ {field} |-> rec[f]]

NoCoordinates ==
    [ type |-> "Feature", geometry |-> [ type |-> "Polygon" ],
      properties |-> [ name |-> "Rectangle 2" ] ]

GeoJsonInputs ==
    LET sample == generateSampleGeoJson
        broken == [ sample EXCEPT !.features = << sample.features[1], NoCoordinates >> ]
    IN  { sample,
          Without(sample, "bbox"),
          [ sample EXCEPT !.type = "Feature" ],
          Without(sample, "features"),
          Without(Without(sample, "features"), "bbox"),
          broken,
          Without(broken, "bbox") }

GisInputs ==
    { [ defaultGisParameters EXCEPT !.showBoundingBox = b, !.useRandomColors = u,
                                    !.scalingFunction = f, !.translateX = t ] :
      b \in BOOLEAN, u \in BOOLEAN, f \in {"min", "max"},
      t \in {Rat(0, 1), Rat(300, 1)} }

\* The sequences of getRandomColor outcomes of length n.
Draws(n) == [1..n -> RandomDraws]

----------------------------------------------------------------------------
\* Calls of the engine.  The services keep no state from one call to the
\* next, so a behaviour makes one call: the action leaves in call what was
\* called, with what, and what came back.

previewVars == <<parametersSubject, subscribed, currentParameters, microtasks,
                 svgContent, updates>>

StarCalculateStep ==
    /\ call.op = "none"
    /\ \E n \in Noids :
          call' = [ op |-> "StarGeneratorService.calculateStep", args |-> n,
                    ret |-> calculateStep(n) ]
    /\ UNCHANGED <<star, gis, previewVars>>

CurvedCalculateStep ==
    /\ call.op = "none"
    /\ \E n \in Noids :
          call' = [ op |-> "CurvedStarService.calculateStep", args |-> n,
                    ret |-> curvedCalculateStep(n) ]
    /\ UNCHANGED <<star, gis, previewVars>>

StarStarPoints ==
    /\ call.op = "none"
    /\ \E n \in Noids, a \in Angles :
          call' = [ op |-> "StarGeneratorService.starPoints",
                    args |-> <<n, 500, 0, 0, a>>,
                    ret |-> Return(starPoints(n, 500, 0, 0, a)) ]
    /\ UNCHANGED <<star, gis, previewVars>>

CurvedStarPoints ==
    /\ call.op = "none"
    /\ \E n \in Noids, a \in Angles :
          call' = [ op |-> "CurvedStarService.starPoints",
                    args |-> <<n, 28000, 0, 0, a>>,
                    ret |-> Return(curvedStarPoints(n, 28000, 0, 0, a)) ]
    /\ UNCHANGED <<star, gis, previewVars>>

GenerateCurvedStar ==
    /\ call.op = "none"
    /\ \E params \in CurvedStarInputs :
          call' = [ op |-> "CurvedStarService.generateCurvedStar",
                    args |-> params, ret |-> generateCurvedStar(params) ]
    /\ UNCHANGED <<star, gis, previewVars>>

GenerateStarPaths ==
    /\ call.op = "none"
    /\ \E n \in Noids, a \in Angles :
          call' = [ op |-> "StarGeneratorService.generateStarPaths",
                    args |-> <<n, 500, 0, 0, a>>,
                    ret |-> generateStarPaths(n, 500, 0, 0, a) ]
    /\ UNCHANGED <<star, gis, previewVars>>

GenerateYinYang ==
    /\ call.op = "none"
    /\ \E params \in YinYangInputs :
          call' = [ op |-> "YinYangGeneratorService.generateYinYang",
                    args |-> params, ret |-> Return(generateYinYang(params)) ]
    /\ UNCHANGED <<star, gis, previewVars>>

\* generateGisMapFromData; ret keeps, next to the markup or the TypeError,
\* what was done to the data before the call ended.
GenerateGisMapFromData ==
    /\ call.op = "none"
    /\ \E data \in GeoJsonInputs, params \in GisInputs :
          \E draws \in IF params.useRandomColors THEN Draws(2) ELSE { <<1, 1>> } :
              call' = [ op |-> "GisRendererService.generateGisMapFromData",
                        args |-> [ data |-> data, params |-> params ],
                        ret |-> generateGisMapFromData(data, params, draws) ]
    /\ UNCHANGED <<star, gis, previewVars>>

----------------------------------------------------------------------------
\* Calls of the colour kernel of YinYangGeneratorService.

\* The largest value of a colour channel (the mask of hexToRgb).
MaxChannel == 255

\* Channel triples: one channel takes every value, the others a few.
ChannelSamples == {0, 20, 30, MaxChannel}
RgbInputs ==
    { <<c, s1, s2>> : c \in 0..MaxChannel, s1 \in ChannelSamples, s2 \in ChannelSamples }
    \cup { <<s1, c, s2>> : c \in 0..MaxChannel, s1 \in ChannelSamples, s2 \in ChannelSamples }
    \cup { <<s1, s2, c>> : c \in 0..MaxChannel, s1 \in ChannelSamples, s2 \in ChannelSamples }

\* Colour texts: '#000000', '#FFFFFF', '#abc', '#FE0180'.
ColorBlack == <<Hash, 0, 0, 0, 0, 0, 0>>
ColorWhite == <<Hash, 15, 15, 15, 15, 15, 15>>
ColorShort == <<Hash, 10, 11, 12>>
ColorEdge == <<Hash, 15, 14, 0, 1, 8, 0>>
ColorInputs == {ColorBlack, ColorWhite, ColorGreen, ColorRed, ColorShort, ColorEdge}

GradientColors ==
    /\ call.op = "none"
    /\ \E n \in Noids, color1 \in ColorInputs, color2 \in ColorInputs :
          call' = [ op |-> "YinYangGeneratorService.gradientColors",
                    args |-> <<n, color1, color2>>,
                    ret |-> gradientColors(n, color1, color2) ]
    /\ UNCHANGED <<star, gis, previewVars>>

HexToRgb ==
    /\ call.op = "none"
    /\ \E hex \in ColorInputs :
          call' = [ op |-> "YinYangGeneratorService.hexToRgb", args |-> hex,
                    ret |-> hexToRgb(hex) ]
    /\ UNCHANGED <<star, gis, previewVars>>

ReverseColor ==
    /\ call.op = "none"
    /\ \E hex \in ColorInputs :
          call' = [ op |-> "YinYangGeneratorService.reverseColor", args |-> hex,
                    ret |-> reverseColor(hex) ]
    /\ UNCHANGED <<star, gis, previewVars>>

\* lightenColor with the percentages the templates pass (20 and 40) and
\* others, negative ones among them.
Percents == {-100, -40, -1, 0, 1, 10, 20, 40, 50, 100}

LightenColor ==
    /\ call.op = "none"
    /\ \E color \in ColorInputs, percent \in Percents :
          call' = [ op |-> "YinYangGeneratorService.lightenColor",
                    args |-> <<color, percent>>,
                    ret |-> lightenColor(color, percent) ]
    /\ UNCHANGED <<star, gis, previewVars>>

RgbToHex ==
    /\ call.op = "none"
    /\ \E rgb \in RgbInputs :
          call' = [ op |-> "YinYangGeneratorService.rgbToHex", args |-> rgb,
                    ret |-> rgbToHex(<<Some(rgb[1]), Some(rgb[2]), Some(rgb[3])>>) ]
    /\ UNCHANGED <<star, gis, previewVars>>

----------------------------------------------------------------------------
\* Calls of createPath, on the rings that starPoints gives.

StarCreatePath ==
    /\ call.op = "none"
    /\ \E n \in Noids, a \in Angles :
          LET points == starPoints(n, 500, 0, 0, a)
          IN  call' = [ op |-> "StarGeneratorService.createPath",
                        args |-> points, ret |-> createPath(points) ]
    /\ UNCHANGED <<star, gis, previewVars>>

CurvedCreatePath ==
    /\ call.op = "none"
    /\ \E n \in Noids, a \in Angles :
          LET points == curvedStarPoints(n, 28000, 0, 0, a)
          IN  call' = [ op |-> "CurvedStarService.createPath",
                        args |-> points, ret |-> curvedCreatePath(points) ]
    /\ UNCHANGED <<star, gis, previewVars>>

----------------------------------------------------------------------------
\* A call of SvgGeneratorService.generateSvgPath, on the parameters that a
\* call of updateParameters has just set.

PathPatches ==
    { [ shape |-> s, edgeCount |-> n, size |-> 1000, angle |-> a,
        centerX |-> 0, centerY |-> 0 ] :
      s \in {"polygon", "star"}, n \in Noids, a \in {0, 90} }
    \cup { [ shape |-> "spiral", spiralTurns |-> turns, size |-> 1000,
             angle |-> a, centerX |-> c, centerY |-> 0 ] :
           turns \in 0..MaxTurns, a \in {0, 90}, c \in {0, 500} }

GenerateSvgPath ==
    /\ call.op = "none"
    /\ \E patch \in PathPatches :
          LET newParams == Merge(parametersSubject, patch)
          IN  /\ parametersSubject' = newParams
              /\ call' = [ op |-> "SvgGeneratorService.generateSvgPath",
                           args |-> newParams,
                           ret |-> generateSvgPath(newParams) ]
    /\ UNCHANGED <<star, gis, subscribed, currentParameters, microtasks,
                   svgContent, updates>>

----------------------------------------------------------------------------
\* StarGeneratorService.generateStar, one pass of its while loop at a time.
\* star.pc is "idle" before the first call, "loop" at the test of the loop,
\* "returned" or "threw" after the call; star.i, star.currentRadius and
\* star.paths are the locals of the call and star.ret the markup returned.

\* The getRandomColor outcomes of one pass: none are drawn unless nested.
DrawChoices(params) ==
    IF params.nested THEN Draws(StarPathCount(params.noids))
    ELSE { [k \in 1..StarPathCount(params.noids) |-> 1] }

StarBegin ==
    /\ star.pc = "idle"
    /\ \E params \in StarInputs :
          star' = [ pc |-> "loop", params |-> params, i |-> 0,
                    currentRadius |-> Fin(params.radius), paths |-> <<>>,
                    ret |-> Undefined ]
    /\ UNCHANGED <<call, gis, previewVars>>

StarIterate ==
    /\ star.pc = "loop"
    /\ star.i < MaxLayers
    /\ StarLoopCondition(star.params, star.i, star.currentRadius)
    /\ \E draws \in DrawChoices(star.params) :
          LET After(pass) == IF pass.threw
                             THEN [ star EXCEPT !.pc = "threw" ]
                             ELSE [ star EXCEPT !.i = @ + 1,
                                                !.currentRadius = pass.radius,
                                                !.paths = @ \o pass.paths ]
          IN  star' = After(StarLoopBody(star.params, star.i, star.currentRadius,
                                         draws))
    /\ UNCHANGED <<call, gis, previewVars>>

StarReturn ==
    /\ star.pc = "loop"
    /\ ~StarLoopCondition(star.params, star.i, star.currentRadius)
    /\ star' = [ star EXCEPT !.pc = "returned",
                             !.ret = Some(starCreateSvgElement(star.paths,
                                                               star.params)) ]
    /\ UNCHANGED <<call, gis, previewVars>>

----------------------------------------------------------------------------
\* GisRendererService.generateGisMap, one await at a time.  What the network
\* does is an outcome: fetch rejects, or it gives a response with its ok flag
\* and status, whose json() gives the document or rejects (body = <<>>).

Throw(message) == [threw |-> TRUE, value |-> message]

Pending == [ fetch |-> "pending", ok |-> FALSE, status |-> "", body |-> Undefined ]
NetworkError == [ fetch |-> "rejects", ok |-> FALSE, status |-> "", body |-> Undefined ]
Response(ok, status, body) ==
    [ fetch |-> "responds", ok |-> ok, status |-> status, body |-> body ]

\* fetchGeoJsonData on a settled outcome: every failure is caught and thrown
\* again as 'Failed to fetch GeoJSON data: ...'.
fetchGeoJsonData(outcome) ==
    IF outcome.fetch = "rejects"
    THEN Throw(<<"Failed to fetch GeoJSON data: ", "TypeError: Failed to fetch">>)
    ELSE IF ~outcome.ok
    THEN Throw(<<"Failed to fetch GeoJSON data: ", "Error: HTTP error! status: ",
                 outcome.status>>)
    ELSE IF outcome.body = Undefined
    THEN Throw(<<"Failed to fetch GeoJSON data: ", "SyntaxError">>)
    ELSE Return(outcome.body[1])

\* generateGisMap without its catch: what is thrown reaches the caller.
generateGisMapUncaught(params, outcome, draws) ==
    LET Drawn(paths) ==
            IF paths.threw THEN TypeError
            ELSE Return(gisCreateSvgElement(paths.value, params))
        Fetched(geoJsonData) ==
            IF geoJsonData.threw THEN geoJsonData
            ELSE Drawn(generateGeoJsonPaths(geoJsonData.value, params, draws))
    IN  Fetched(fetchGeoJsonData(outcome))

\* What the promise of generateGisMap settles to.
generateGisMap(params, outcome, draws) ==
    LET Drawn(paths) ==
            IF paths.threw
            THEN Return(createErrorSvg(<<"Error loading GIS data: ", "TypeError">>))
            ELSE Return(gisCreateSvgElement(paths.value, params))
        Fetched(geoJsonData) ==
            IF geoJsonData.threw
            THEN Return(createErrorSvg(<<"Error loading GIS data: ">>
                                       \o geoJsonData.value))
            ELSE Drawn(generateGeoJsonPaths(geoJsonData.value, params, draws))
    IN  Fetched(fetchGeoJsonData(outcome))

GisBegin ==
    /\ gis.pc = "idle"
    /\ \E params \in GisInputs :
          gis' = [ pc |-> "fetch",
                   params |-> [ params EXCEPT !.sourceUrl = "https://host/map.geojson" ],
                   outcome |-> Pending, ret |-> Undefined ]
    /\ UNCHANGED <<call, star, previewVars>>

\* await fetch(url) rejects: the catch of generateGisMap settles the call.
FetchRejects ==
    /\ gis.pc = "fetch"
    /\ gis' = [ gis EXCEPT !.pc = "settled", !.outcome = NetworkError,
                           !.ret = Some(generateGisMap(gis.params, NetworkError, <<>>)) ]
    /\ UNCHANGED <<call, star, previewVars>>

\* await fetch(url) gives a response: one that is not ok settles the call,
\* one that is ok goes on to await response.json().
FetchResponds ==
    /\ gis.pc = "fetch"
    /\ \E r \in { Response(TRUE, "200", Undefined), Response(FALSE, "404", Undefined),
                  Response(FALSE, "500", Undefined) } :
          gis' = IF r.ok
                 THEN [ gis EXCEPT !.pc = "json", !.outcome = r ]
                 ELSE [ gis EXCEPT !.pc = "settled", !.outcome = r,
                                   !.ret = Some(generateGisMap(gis.params, r, <<>>)) ]
    /\ UNCHANGED <<call, star, previewVars>>

JsonRejects ==
    /\ gis.pc = "json"
    /\ gis' = [ gis EXCEPT !.pc = "settled",
                           !.ret = Some(generateGisMap(gis.params, gis.outcome, <<>>)) ]
    /\ UNCHANGED <<call, star, previewVars>>

JsonResolves ==
    /\ gis.pc = "json"
    /\ \E data \in GeoJsonInputs :
          \E draws \in IF gis.params.useRandomColors THEN Draws(2) ELSE { <<1, 1>> } :
              LET r == [ gis.outcome EXCEPT !.body = Some(data) ]
              IN  gis' = [ gis EXCEPT !.pc = "settled", !.outcome = r,
                                      !.ret = Some(generateGisMap(gis.params, r, draws)) ]
    /\ UNCHANGED <<call, star, previewVars>>

----------------------------------------------------------------------------
\* SvgGeneratorService.updateParameters and SvgPreviewComponent.

\* The svgContent of a component that has rendered nothing yet: ''.
EmptyMarkup == [ svg |-> "" ]

\* The Partial<SvgParameters> records updateParameters is called with.
ParameterPatches ==
    { [ shape |-> "polygon", edgeCount |-> 3 ],
      [ shape |-> "star", angle |-> 90 ],
      [ shape |-> "spiral", spiralTurns |-> 1 ],
      [ shape |-> "circle" ],
      [ shape |-> "curved-star" ],
      [ shape |-> "custom-star", edgeCount |-> 5, angle |-> 90, size |-> 500,
        minRadius |-> 100, nested |-> TRUE, fillColor |-> ColorRed ],
      [ shape |-> "custom-star", edgeCount |-> 0 ],
      [ shape |-> "yinyang", edgeCount |-> 4, useGradient |-> FALSE ],
      [ shape |-> "gis", gisSourceUrl |-> "", showBoundingBox |-> FALSE,
        useRandomGisColors |-> FALSE ],
      [ shape |-> "gis", gisSourceUrl |-> "https://host/map.geojson" ] }

\* generateSvg up to its await: generateSvgElement runs at once on the
\* parameters of the service, and the assignment to svgContent waits as a
\* microtask.  When generateSvgElement throws, the promise of generateSvg
\* rejects and no assignment is ever made.
GenerateSvg(params, rnd, queue) ==
    LET Then(made) == IF made.threw THEN queue ELSE Append(queue, made.value)
    IN  Then(generateSvgElement(params, rnd))

\* ngOnInit: subscribing to the BehaviorSubject delivers its value at once.
NgOnInit ==
    /\ subscribed = "no"
    /\ subscribed' = "yes"
    /\ currentParameters' = Some(parametersSubject)
    /\ \E rnd \in Draws(DrawCount(parametersSubject)) :
          microtasks' = GenerateSvg(parametersSubject, rnd, microtasks)
    /\ UNCHANGED <<call, star, gis, parametersSubject, svgContent, updates>>

\* updateParameters: merge, next(); the subscriber of the preview, if there
\* is one, runs inside next().
updateParameters(parameters) ==
    LET newParams == Merge(parametersSubject, parameters)
    IN  /\ parametersSubject' = newParams
        /\ IF subscribed = "yes"
           THEN /\ currentParameters' = Some(newParams)
                /\ \E rnd \in Draws(DrawCount(newParams)) :
                      microtasks' = GenerateSvg(newParams, rnd, microtasks)
           ELSE UNCHANGED <<currentParameters, microtasks>>

UpdateParameters ==
    /\ updates < MaxUpdates
    /\ updates' = updates + 1
    /\ \E parameters \in ParameterPatches : updateParameters(parameters)
    /\ UNCHANGED <<call, star, gis, subscribed, svgContent>>

\* The record that resetToDefaults passes to updateParameters.
ResetParameters ==
    [ edgeCount |-> 6, angle |-> 0, size |-> 10000, strokeWidth |-> 2,
      radius |-> 28000, strokeColor |-> ColorDark, fillColor |-> ColorGreen,
      centerX |-> 0, centerY |-> 0, shape |-> "custom-star",
      innerRadius |-> 5000, spiralTurns |-> 3, rayRatio |-> 150,
      curvedNoids |-> 8, minRadius |-> 5000, startVertex |-> 0,
      nested |-> FALSE, spinDuration |-> <<>>, useGradient |-> TRUE ]

\* SvgParametersComponent.resetToDefaults.
ResetToDefaults ==
    /\ updates < MaxUpdates
    /\ updates' = updates + 1
    /\ updateParameters(ResetParameters)
    /\ UNCHANGED <<call, star, gis, subscribed, svgContent>>

\* Two records that randomizeParameters can draw, both with the centre at
\* the origin and nested = false, which keeps the products of
\* lineIntersection within 32 bits when a nested star follows.
ColorOrange == <<Hash, 15, 15, 5, 7, 2, 2>>           \* '#FF5722'
RandomParameters ==
    { [ edgeCount |-> 3, angle |-> 0, size |-> 5000, strokeWidth |-> 1,
        strokeColor |-> ColorOrange, fillColor |-> ColorOrange,
        innerRadius |-> 2000, radius |-> 5000, centerX |-> 0,
        centerY |-> 0, spiralTurns |-> 1, rayRatio |-> 150,
        curvedNoids |-> 4, minRadius |-> 1000, startVertex |-> 0,
        nested |-> FALSE, useGradient |-> FALSE ],
      [ edgeCount |-> 5, angle |-> 90, size |-> 12500, strokeWidth |-> 3,
        strokeColor |-> ColorGreen, fillColor |-> ColorOrange,
        innerRadius |-> 6000, radius |-> 20000, centerX |-> 0,
        centerY |-> 0, spiralTurns |-> 2, rayRatio |-> 250,
        curvedNoids |-> 8, minRadius |-> 3000, startVertex |-> 1,
        nested |-> FALSE, useGradient |-> TRUE ] }

\* SvgParametersComponent.randomizeParameters.
RandomizeParameters ==
    /\ updates < MaxUpdates
    /\ updates' = updates + 1
    /\ \E randomParams \in RandomParameters : updateParameters(randomParams)
    /\ UNCHANGED <<call, star, gis, subscribed, svgContent>>

\* The continuation of the oldest pending generateSvg: this.svgContent = ...
RunMicrotask ==
    /\ microtasks # <<>>
    /\ svgContent' = Head(microtasks)
    /\ microtasks' = Tail(microtasks)
    /\ UNCHANGED <<call, star, gis, parametersSubject, subscribed,
                   currentParameters, updates>>

\* ngOnDestroy: subscription.unsubscribe().
NgOnDestroy ==
    /\ subscribed = "yes"
    /\ subscribed' = "destroyed"
    /\ UNCHANGED <<call, star, gis, parametersSubject, currentParameters,
                   microtasks, svgContent, updates>>

----------------------------------------------------------------------------
\* The specifications: the engine under calls, generateStar under the passes
\* of its loop, generateGisMap under the outcomes of the network, and the
\* preview under parameter updates.

Init ==
    /\ call = [ op |-> "none", args |-> <<>>, ret |-> <<>> ]
    /\ star = [ pc |-> "idle", params |-> StarParamsOf(defaultSvgParameters),
                i |-> 0, currentRadius |-> Fin(defaultSvgParameters.size),
                paths |-> <<>>, ret |-> Undefined ]
    /\ gis = [ pc |-> "idle", params |-> defaultGisParameters,
               outcome |-> Pending, ret |-> Undefined ]
    /\ parametersSubject = defaultSvgParameters
    /\ subscribed = "no"
    /\ currentParameters = Undefined
    /\ microtasks = <<>>
    /\ svgContent = EmptyMarkup
    /\ updates = 0

Next ==
    \/ StarCalculateStep
    \/ CurvedCalculateStep
    \/ StarStarPoints
    \/ CurvedStarPoints
    \/ GenerateCurvedStar
    \/ GenerateStarPaths
    \/ GenerateYinYang
    \/ GenerateGisMapFromData
    \/ HexToRgb
    \/ ReverseColor
    \/ LightenColor
    \/ StarCreatePath
    \/ CurvedCreatePath
    \/ GenerateSvgPath
    \/ RgbToHex
    \/ GradientColors

Spec == Init /\ [][Next]_vars

NextStar ==
    \/ StarBegin
    \/ StarIterate
    \/ StarReturn

SpecStar == Init /\ [][NextStar]_vars

NextFetch ==
    \/ GisBegin
    \/ FetchRejects
    \/ FetchResponds
    \/ JsonRejects
    \/ JsonResolves

SpecFetch == Init /\ [][NextFetch]_vars

NextPreview ==
    \/ NgOnInit
    \/ UpdateParameters
    \/ ResetToDefaults
    \/ RandomizeParameters
    \/ RunMicrotask
    \/ NgOnDestroy

SpecPreview == Init /\ [][NextPreview]_vars
----------------------------------------------------------------------------
\* The claims.

\* The elements of a sequence.
Range(f) == { f[k] : k \in DOMAIN f }

\* C1: calculateStep of either star service, called with n >= 1, returns
\* (n - n%2)/2 for odd n and (n - 1 - (n-1)%2)/2 for even n; it returns 2 for
\* 5, 2 for 6 and 3 for 8.
C1_SkipStepFormula ==
    ( /\ call.op \in { "StarGeneratorService.calculateStep",
                       "CurvedStarService.calculateStep" }
      /\ call.args >= 1 )
    => /\ call.args % 2 = 1 => 2 * call.ret = call.args - (call.args % 2)
       /\ call.args % 2 = 0 => 2 * call.ret = call.args - 1 - ((call.args - 1) % 2)
       /\ call.args = 5 => call.ret = 2
       /\ call.args = 6 => call.ret = 2
       /\ call.args = 8 => call.ret = 3

C1_Witness ==
    /\ call.op = "CurvedStarService.calculateStep"
    /\ call.args = 8
    /\ call.ret = 3

\* The sweep flags of the arcs of the k-th path of a curved-star markup.
SweepFlags(markup, k) ==
    [a \in DOMAIN markup.elements[k].d.A |-> markup.elements[k].d.A[a].sweep]

\* A call of generateCurvedStar with noids = 8 that returned markup.
CurvedStarOfEight ==
    /\ call.op = "CurvedStarService.generateCurvedStar"
    /\ call.args.noids = 8
    /\ ~call.ret.threw

\* C2 as stated: generateCurvedStar with noids = 8 gives exactly one path,
\* whose 8 arcs carry in drawing order the sweep flags 1,0,1,0,1,0,1,0.
C2_SweepFlagsAsStated ==
    CurvedStarOfEight
    => /\ Len(call.ret.value.elements) = 1
       /\ SweepFlags(call.ret.value, 1) = <<1, 0, 1, 0, 1, 0, 1, 0>>

\* C2 amended: generateCurvedStar with noids = 8 gives exactly one path,
\* whose 8 arcs carry in drawing order the sweep flags 0,1,0,1,0,1,0,1, which
\* is 1 - (i % 2) for i = 1..8.
C2_SweepFlags ==
    CurvedStarOfEight
    => /\ Len(call.ret.value.elements) = 1
       /\ SweepFlags(call.ret.value, 1) = <<0, 1, 0, 1, 0, 1, 0, 1>>
       /\ \A i \in 1..8 : SweepFlags(call.ret.value, 1)[i] = 1 - (i % 2)

C2_Witness ==
    /\ CurvedStarOfEight
    /\ Len(call.ret.value.elements[1].d.A) = 8

\* The points a closed list of points goes through, and whether it ends
\* where it began.
Closed(path) == Len(path) >= 2 /\ path[Len(path)] = path[1]
Visited(path) == { path[k] : k \in 1..(Len(path) - 1) }

\* The list of points of a curved-star path: the M point, then where each
\* arc ends.
ArcPoints(d) == <<d.M>> \o [k \in DOMAIN d.A |-> d.A[k].to]

\* What C3 asks of the closed lists paths drawn on the ring points: for
\* noids mod 4 = 2 two lists, one through the noids/2 even-indexed points and
\* one through the noids/2 odd-indexed points; otherwise one list through
\* all the points.
SplitsRing(noids, points, paths) ==
    IF noids % 4 = 2
    THEN /\ Len(paths) = 2
         /\ \A k \in 1..2 : Closed(paths[k]) /\ Len(paths[k]) = noids \div 2 + 1
         /\ Visited(paths[1]) = Range(EvenPoints(points))
         /\ Visited(paths[2]) = Range(OddPoints(points))
         /\ Cardinality(Visited(paths[1])) = noids \div 2
         /\ Cardinality(Visited(paths[2])) = noids \div 2
    ELSE /\ Len(paths) = 1
         /\ Closed(paths[1]) /\ Len(paths[1]) = noids + 1
         /\ Visited(paths[1]) = Range(points)

\* C3: for noids >= 1, generateStarPaths and generateCurvedStar draw, when
\* noids mod 4 = 2, the even-indexed and the odd-indexed points as two closed
\* paths of noids/2 points each, and otherwise one closed path over all points.
C3_SplitOnTwoModFour ==
    /\ ( call.op = "StarGeneratorService.generateStarPaths" /\ call.args[1] >= 1 )
       => /\ ~call.ret.threw
          /\ SplitsRing(call.args[1],
                        starPoints(call.args[1], call.args[2], call.args[3],
                                   call.args[4], call.args[5]),
                        call.ret.value)
    /\ ( /\ call.op = "CurvedStarService.generateCurvedStar"
         /\ call.args.noids >= 1
         /\ "ray" \in DOMAIN call.args )
       => /\ ~call.ret.threw
          /\ SplitsRing(call.args.noids,
                        curvedStarPoints(call.args.noids, call.args.radius,
                                         call.args.dx, call.args.dy,
                                         call.args.initialAngle),
                        [k \in DOMAIN call.ret.value.elements |->
                            ArcPoints(call.ret.value.elements[k].d)])

C3_Witness ==
    /\ call.op = "CurvedStarService.generateCurvedStar"
    /\ call.args.noids = 10
    /\ ~call.ret.threw
    /\ Len(call.ret.value.elements) = 2
    /\ Len(call.ret.value.elements[1].d.A) = 5
    /\ Len(call.ret.value.elements[2].d.A) = 5

\* C4: a call of generateStar with nested = false never enters a second pass
\* of its loop, and returns after exactly one pass with the paths of one
\* layer, whatever radius, minRadius and noids are.
C4_OnePassUnlessNested ==
    ~star.params.nested
    => /\ star.i <= 1
       /\ star.pc = "returned"
          => /\ star.i = 1
             /\ Len(star.paths) = StarPathCount(star.params.noids)

C4_Witness ==
    /\ star.pc = "returned"
    /\ ~star.params.nested
    /\ star.params.noids > 4
    /\ star.params.minRadius < star.params.radius
    /\ star.i = 1

\* C5 as stated: generateGisMapFromData on a document that fails
\* validateGeoJsonData ends in an error, with no bounding box calculated
\* from the document and no feature transformed.
C5_MalformedRejectedFirst ==
    ( /\ call.op = "GisRendererService.generateGisMapFromData"
      /\ ~validateGeoJsonData(call.args.data) )
    => /\ call.ret.threw
       /\ call.ret.boundingBox \notin {"calculated", "threw"}
       /\ call.ret.transformed = 0

\* Whether the network outcome of a settled generateGisMap is a failure.
FetchFailed(outcome) ==
    \/ outcome.fetch = "rejects"
    \/ ~outcome.ok
    \/ outcome.body = Undefined

\* C6: a settled call of generateGisMap has returned markup and thrown
\* nothing; after a network error, a response that is not ok or a body that
\* is not JSON the markup is the error markup, and it is map markup only when
\* the fetch gave an ok response with a JSON body.
C6_AlwaysRenders ==
    gis.pc = "settled"
    => /\ gis.ret # Undefined
       /\ ~gis.ret[1].threw
       /\ gis.ret[1].value.svg \in {"gis", "gis-error"}
       /\ FetchFailed(gis.outcome) => gis.ret[1].value.svg = "gis-error"
       /\ gis.ret[1].value.svg = "gis" => ~FetchFailed(gis.outcome)

C6_Witness ==
    /\ gis.pc = "settled"
    /\ gis.outcome.fetch = "responds"
    /\ ~gis.outcome.ok
    /\ gis.outcome.status = "404"
    /\ gis.ret[1].value.svg = "gis-error"

\* Whether markup is what generateSvgElement gives for params, under some
\* outcome of its random draws.
GeneratedFrom(params, markup) ==
    \E rnd \in Draws(DrawCount(params)) :
        LET Is(made) == /\ ~made.threw
                        /\ made.value.svg = markup.svg
                        /\ made.value = markup
        IN  Is(generateSvgElement(params, rnd))

\* C7 as stated: once the preview has subscribed and no regeneration is
\* pending, svgContent is the markup generated from the parameters set last.
C7_LastWriteWins ==
    ( subscribed = "yes" /\ microtasks = <<>> )
    => GeneratedFrom(parametersSubject, svgContent)

\* The polygons of a GIS markup, the bounding-box outline left out.
FeaturePolygonsOf(markup) ==
    SelectSeq(markup.elements, LAMBDA e : e.fill # TextNone)

\* The reflection of a set of points in the vertical line x = 0.
Mirrored(points) == { << RNeg(pt[1]), pt[2] >> : pt \in points }

\* A call of generateGisMapFromData on the sample data with translateX = 0.
SampleMapCall ==
    /\ call.op = "GisRendererService.generateGisMapFromData"
    /\ call.args.data = generateSampleGeoJson
    /\ call.args.params.translateX = Rat(0, 1)

\* C8 as stated: the sample data with translateX = 0 gives two polygon
\* elements, the points of one being the mirror image in x = 0 of the points
\* of the other.
C8_TwoPolygonsAsStated ==
    SampleMapCall
    => /\ ~call.ret.threw
       /\ Len(call.ret.value.elements) = 2
       /\ Mirrored(Range(call.ret.value.elements[1].points))
            = Range(call.ret.value.elements[2].points)

\* C8 amended: the sample data with translateX = 0 gives one polygon for
\* each of the two rectangles, after the polygon of the bounding-box outline
\* when showBoundingBox is set (three polygon elements then, two otherwise);
\* the vertices of one rectangle polygon are the mirror image in x = 0 of the
\* vertices of the other.
C8_TwoMirroredPolygons ==
    SampleMapCall
    => /\ ~call.ret.threw
       /\ Len(call.ret.value.elements)
            = IF call.args.params.showBoundingBox THEN 3 ELSE 2
       /\ call.args.params.showBoundingBox
            => call.ret.value.elements[1].fill = TextNone
       /\ Len(FeaturePolygonsOf(call.ret.value)) = 2
       /\ Mirrored(Range(FeaturePolygonsOf(call.ret.value)[1].points))
            = Range(FeaturePolygonsOf(call.ret.value)[2].points)

C8_Witness ==
    /\ SampleMapCall
    /\ call.args.params.showBoundingBox
    /\ ~call.ret.threw
    /\ Len(call.ret.value.elements) = 3
    /\ Len(FeaturePolygonsOf(call.ret.value)) = 2

\* C9 as stated: a call of generateStar that returned markup for a parameter
\* record (which names its fill colour) returns that same markup whenever it
\* is made again.
C9_SameMarkupAgain ==
    star.pc = "returned"
    => \A rnd \in Draws(Len(star.paths)) :
          generateStar(star.params, rnd).ret.value = star.ret[1]

\* C10 as stated: starPoints called with noids = 0 throws.
C10_ZeroPointsRejected ==
    ( /\ call.op \in { "StarGeneratorService.starPoints",
                       "CurvedStarService.starPoints" }
      /\ call.args[1] = 0 )
    => call.ret.threw

\* C11 as stated: generateCurvedStar called with noids 0, 1 or 2 throws and
\* returns no markup.
C11_DegenerateStarRejected ==
    ( /\ call.op = "CurvedStarService.generateCurvedStar"
      /\ call.args.noids < 3 )
    => call.ret.threw

\* C12: hexToRgb of the text rgbToHex gives for three integers in 0..255 is
\* those three integers.
C12_RgbRoundTrip ==
    call.op = "YinYangGeneratorService.rgbToHex"
    => /\ Len(call.ret) = 7
       /\ hexToRgb(call.ret) = call.args

C12_Witness ==
    /\ call.op = "YinYangGeneratorService.rgbToHex"
    /\ call.args = <<10, 20, 30>>
    /\ call.ret = <<Hash, 0, 10, 1, 4, 1, 14>>
    /\ hexToRgb(call.ret) = <<10, 20, 30>>

\* Whether text is '#' and six hex digits, and whether it is such a text for
\* the colour that other stands for.
IsColorText(text) ==
    /\ Len(text) = 7
    /\ text[1] = Hash
    /\ \A k \in 2..7 : text[k] < 16
SameColor(text, other) == IsColorText(text) /\ hexToRgb(text) = hexToRgb(other)

\* C13 as stated: gradientColors with n = 1 returns the one-element list of
\* its first colour.
C13_SingleSample ==
    ( /\ call.op = "YinYangGeneratorService.gradientColors"
      /\ call.args[1] = 1 )
    => /\ Len(call.ret) = 1
       /\ SameColor(call.ret[1], call.args[2])

\* The values of channel c along a list of colour texts.
ChannelAlong(colors, c) == [j \in DOMAIN colors |-> hexToRgb(colors[j])[c]]

\* C14: gradientColors with n >= 2 returns n colours, the first the colour
\* color1 and the last the colour color2, and each channel never moves away
\* from color2's value along the list; from '#000000' to '#FFFFFF' with n = 5
\* every channel increases at each step, from 0 to 255.
C14_MonotoneGradient ==
    ( /\ call.op = "YinYangGeneratorService.gradientColors"
      /\ call.args[1] >= 2 )
    => LET n == call.args[1]
           from == hexToRgb(call.args[2])
           to == hexToRgb(call.args[3])
       IN  /\ Len(call.ret) = n
           /\ \A j \in 1..n : IsColorText(call.ret[j])
           /\ SameColor(call.ret[1], call.args[2])
           /\ SameColor(call.ret[n], call.args[3])
           /\ \A c \in 1..3 : \A j \in 1..(n - 1) :
                 LET along == ChannelAlong(call.ret, c)
                 IN  /\ from[c] <= to[c] => along[j] <= along[j + 1]
                     /\ from[c] >= to[c] => along[j] >= along[j + 1]
           /\ ( n = 5 /\ call.args[2] = ColorBlack /\ call.args[3] = ColorWhite )
              => \A c \in 1..3 :
                    /\ ChannelAlong(call.ret, c)[1] = 0
                    /\ ChannelAlong(call.ret, c)[5] = 255
                    /\ \A j \in 1..4 :
                          ChannelAlong(call.ret, c)[j] < ChannelAlong(call.ret, c)[j + 1]

C14_Witness ==
    /\ call.op = "YinYangGeneratorService.gradientColors"
    /\ call.args = <<5, ColorBlack, ColorWhite>>
    /\ ChannelAlong(call.ret, 1) = <<0, 64, 128, 191, 255>>

\* The six-digit text that a three-digit colour text stands for.
SixDigits(text) ==
    <<Hash, text[2], text[2], text[3], text[3], text[4], text[4]>>

\* C15 as stated: hexToRgb, reverseColor and lightenColor called with a
\* three-digit colour give what they give for its six-digit form, the two
\* that return a colour returning a six-digit text.
C15_ShorthandAccepted ==
    /\ ( call.op = "YinYangGeneratorService.hexToRgb" /\ Len(call.args) = 4 )
       => call.ret = hexToRgb(SixDigits(call.args))
    /\ ( call.op = "YinYangGeneratorService.reverseColor" /\ Len(call.args) = 4 )
       => /\ IsColorText(call.ret)
          /\ call.ret = reverseColor(SixDigits(call.args))
    /\ ( call.op = "YinYangGeneratorService.lightenColor" /\ Len(call.args[1]) = 4 )
       => /\ IsColorText(call.ret)
          /\ call.ret = lightenColor(SixDigits(call.args[1]), call.args[2])

\* A call of generateSvgPath for the polygon with edgeCount = 3, size = 10,
\* angle = 0 and centre (0, 0).
TrianglePathCall ==
    /\ call.op = "SvgGeneratorService.generateSvgPath"
    /\ call.args.shape = "polygon"
    /\ call.args.edgeCount = 3
    /\ call.args.size = 1000
    /\ call.args.angle = 0
    /\ call.args.centerX = 0 /\ call.args.centerY = 0

\* C16 as stated: the path of that polygon has exactly 3 line segments
\* before Z, the last of them ending at the point the path starts at, which
\* is the first computed point.
C16_ClosesAsStated ==
    TrianglePathCall
    => /\ call.ret.M = Some(<<1000, 0>>)
       /\ Len(call.ret.L) = 3
       /\ call.ret.L[Len(call.ret.L)] = call.ret.M[1]
       /\ call.ret.Z

\* C16 amended: the path of that polygon is M p0 L p1 L p2 Z: it starts at
\* the first computed point, has one L segment to each of the two other
\* computed points, and is closed by Z alone, the first point not being
\* emitted again.
C16_ClosedByZ ==
    TrianglePathCall
    => /\ call.ret.M = Some(<<1000, 0>>)
       /\ call.ret.L = << <<-500, 866>>, <<-500, -866>> >>
       /\ call.ret.L[Len(call.ret.L)] # call.ret.M[1]
       /\ call.ret.Z

C16_Witness ==
    /\ TrianglePathCall
    /\ Len(call.ret.L) = 2
    /\ call.ret.Z

\* The 0-based index at which a ring holds a point.
IndexIn(points, pt) == CHOOSE i \in 0..(Len(points) - 1) : points[i + 1] = pt

\* C17: createPath of either star service, on a ring of n >= 1 points and
\* with k = calculateStep(n), returns n + 1 points: it starts at ring point
\* 0, each of the first n entries is followed by the ring point k places
\* further round the ring (entry j is ring point (j * k) mod n), and the last
\* entry is ring point 0 again.
C17_SkipStepWalk ==
    ( /\ call.op \in { "StarGeneratorService.createPath",
                       "CurvedStarService.createPath" }
      /\ Len(call.args) >= 1 )
    => LET points == call.args
           n == Len(points)
           k == calculateStep(n)
       IN  /\ ~call.ret.threw
           /\ Len(call.ret.value) = n + 1
           /\ call.ret.value[1] = points[1]
           /\ \A j \in 1..(n - 1) :
                 IndexIn(points, call.ret.value[j + 1])
                   = (IndexIn(points, call.ret.value[j]) + k) % n
           /\ \A j \in 0..(n - 1) : call.ret.value[j + 1] = points[((j * k) % n) + 1]
           /\ call.ret.value[n + 1] = points[1]
           /\ call.ret.value[n + 1] = call.ret.value[1]

C17_Witness ==
    /\ call.op = "StarGeneratorService.createPath"
    /\ Len(call.args) = 5
    /\ ~call.ret.threw
    /\ Len(call.ret.value) = 6
    /\ call.ret.value[2] = call.args[3]
    /\ call.ret.value[6] = call.args[1]

\* Whether, after a layer, the radius is above minRadius, noids above 4 and
\* nested set.
FurtherLayer ==
    /\ RadiusAbove(star.currentRadius, star.params.minRadius)
    /\ star.params.noids > 4
    /\ star.params.nested

\* C18: once generateStar has drawn a layer, it goes on to a further layer
\* only when currentRadius > minRadius, noids > 4 and nested all hold, and
\* returns only when they do not all hold; so a call with noids <= 4 or with
\* radius <= minRadius never enters a second pass and returns with the paths
\* of exactly one layer.
C18_FurtherLayerExactlyWhile ==
    /\ [][ ( star.pc = "loop" /\ star.i >= 1 )
           => /\ ( star'.pc = "loop" /\ star'.i = star.i + 1 ) => FurtherLayer
              /\ star'.pc = "returned" => ~FurtherLayer ]_vars
    /\ []( ( \/ star.params.noids <= 4
             \/ star.params.radius <= star.params.minRadius )
           => /\ star.i <= 1
              /\ star.pc = "returned"
                 => /\ star.i = 1
                    /\ Len(star.paths) = StarPathCount(star.params.noids) )

C18_Witness ==
    /\ star.pc = "returned"
    /\ star.params.nested
    /\ star.params.noids > 4
    /\ star.i >= 2
    /\ ~FurtherLayer

\* C19 as stated: in a nested call of generateStar with noids > 4, the radius
\* computed after each layer is a finite number, never NaN or infinite, and
\* strictly smaller than the radius of the layer just drawn.
C19_RadiusShrinksFinite ==
    /\ []( ( star.params.nested /\ star.params.noids > 4 /\ star.i >= 1 )
           => star.currentRadius.kind = "fin" )
    /\ [][ ( /\ star.pc = "loop"
             /\ star.params.nested /\ star.params.noids > 4
             /\ star'.i = star.i + 1 )
           => /\ star'.currentRadius.kind = "fin"
              /\ star.currentRadius.kind = "fin"
                 => star'.currentRadius.v < star.currentRadius.v ]_vars

\* C20 as stated: the markup generateSvgElement returns to the preview for
\* the shape 'curved-star' has, in every arc, both radii equal to
\* rayRatio * radius, the arcs of a path going through the skip-step
\* reordering of its points and the last arc ending where the path starts.
C20_ArcsOfRayRatio ==
    ( subscribed = "yes" /\ parametersSubject.shape = "curved-star" )
    => LET ray == (CurvedParamsOf(parametersSubject).rayRatio
                     * CurvedParamsOf(parametersSubject).radius) \div 100
           Holds(made) ==
               /\ ~made.threw
               /\ \A k \in DOMAIN made.value.elements :
                     LET d == made.value.elements[k].d
                     IN  /\ \A a \in DOMAIN d.A : d.A[a].rx = ray /\ d.A[a].ry = ray
                         /\ Len(d.A) >= 1
                         /\ d.A[Len(d.A)].to = d.M
                         /\ Closed(ArcPoints(d))
       IN  Holds(generateSvgElement(parametersSubject, <<>>))

\* A call of generateSvgPath for a spiral, and the turns it draws:
\* params.spiralTurns || 3.
SpiralPathCall ==
    /\ call.op = "SvgGeneratorService.generateSvgPath"
    /\ call.args.shape = "spiral"
SpiralTurns == IF call.args.spiralTurns = 0 THEN 3 ELSE call.args.spiralTurns

C22_YinYangElements ==
    ( /\ call.op = "YinYangGeneratorService.generateYinYang"
      /\ call.args.noids >= 1 )
    => LET n == call.args.noids
           elements == call.ret.value.elements
           gradient == gradientColors(n, call.args.baseColor,
                                      reverseColor(call.args.baseColor))
       IN  /\ Len(elements) = 1 + 2 * n
           /\ elements[1].tag = "circle"
           /\ elements[1].r = call.args.radius
           /\ \A i \in 1..n :
                 /\ elements[1 + i].tag = "path"
                 /\ elements[1 + i].fill = gradient[i]
                 /\ elements[1 + n + i].tag = "circle"
                 /\ elements[1 + n + i].r4 = call.args.radius
                 /\ elements[1 + n + i].fill = gradient[i]
                 /\ IsColorText(elements[1 + i].fill)
                 /\ IsColorText(elements[1 + n + i].fill)
           /\ SameColor(elements[2].fill, call.args.baseColor)

\* A channel value brought back into 0..255.
Clamped(c) == IF c < 0 THEN 0 ELSE IF c > 255 THEN 255 ELSE c

\* C23: lightenColor of a six-digit colour and an integer percent returns a
\* six-digit colour, each channel of which is the channel of the input plus
\* Math.round(2.55 * percent), brought back into 0..255.
C23_LightenClamps ==
    ( /\ call.op = "YinYangGeneratorService.lightenColor"
      /\ IsColorText(call.args[1]) )
    => LET amt == LightenAmount(call.args[2])
       IN  /\ IsColorText(call.ret)
           /\ \A c \in 1..3 :
                 hexToRgb(call.ret)[c] = Clamped(hexToRgb(call.args[1])[c] + amt)

C23_Witness ==
    /\ call.op = "YinYangGeneratorService.lightenColor"
    /\ call.args = <<ColorEdge, 1>>
    /\ hexToRgb(call.ret) = <<255, 4, 131>>

\* The path visits each point of the ring once, and then closes on its first
\* point.
PermutesRing(ring, path) ==
    /\ Len(path) = Len(ring) + 1
    /\ Closed(path)
    /\ Visited(path) = Range(ring)
    /\ \A i, j \in 1..Len(ring) : path[i] = path[j] => i = j

\* The rings of a star of noids points: the even and the odd half when noids
\* mod 4 = 2, the full ring otherwise.
RingsOf(noids, points) ==
    IF noids % 4 = 2 THEN << EvenPoints(points), OddPoints(points) >>
                     ELSE << points >>

\* C24: for noids >= 3, each path built by generateStarPaths and by
\* generateCurvedStar visits every point of its ring exactly once before the
\* closing point.
C24_SkipStepPermutes ==
    /\ ( /\ call.op = "StarGeneratorService.generateStarPaths"
         /\ call.args[1] >= 3 )
       => LET rings == RingsOf(call.args[1],
                               starPoints(call.args[1], call.args[2], call.args[3],
                                          call.args[4], call.args[5]))
          IN  /\ ~call.ret.threw
              /\ Len(call.ret.value) = Len(rings)
              /\ \A k \in 1..Len(rings) : PermutesRing(rings[k], call.ret.value[k])
    /\ ( /\ call.op = "CurvedStarService.generateCurvedStar"
         /\ call.args.noids >= 3
         /\ ~call.ret.threw )
       => LET rings == RingsOf(call.args.noids,
                               curvedStarPoints(call.args.noids, call.args.radius,
                                                call.args.dx, call.args.dy,
                                                call.args.initialAngle))
              elements == call.ret.value.elements
          IN  /\ Len(elements) = Len(rings)
              /\ \A k \in 1..Len(rings) :
                    PermutesRing(rings[k], ArcPoints(elements[k].d))

C24_Witness ==
    /\ call.op = "CurvedStarService.generateCurvedStar"
    /\ call.args.noids = 8
    /\ ~call.ret.threw
    /\ Cardinality(Visited(ArcPoints(call.ret.value.elements[1].d))) = 8

\* C25: generateStar with nested = true and noids > 4 terminates after
\* finitely many layers, also when minRadius is zero or below.  The radius
\* after a layer is a function of the radius before it alone (the colours
\* drawn do not enter it), so a layer that leaves the radius as it was while
\* the loop condition still holds is followed by the same layer for ever: a
\* terminating loop has no such layer.
C25_NestedStarTerminates ==
    [][ ( /\ star.pc = "loop" /\ star'.pc = "loop"
          /\ star.params.nested /\ star.params.noids > 4
          /\ star'.i = star.i + 1
          /\ StarLoopCondition(star'.params, star'.i, star'.currentRadius) )
        => star'.currentRadius # star.currentRadius ]_vars

\* The records passed to updateParameters.
UpdateArguments == ParameterPatches \cup RandomParameters \cup {ResetParameters}

\* C26: updateParameters(p) changes exactly the fields present in p (every
\* other field of the current record keeps its value), getCurrentParameters
\* returns the merged record right afterwards, and one emission carrying the
\* merged record reaches the subscriber: the preview records it and starts
\* at most one generateSvg; without a subscriber nothing else changes.
C26_UpdateFrame ==
    [][ updates' = updates + 1
        => \E p \in UpdateArguments :
              /\ DOMAIN parametersSubject' = DOMAIN parametersSubject \cup DOMAIN p
              /\ \A f \in DOMAIN p : parametersSubject'[f] = p[f]
              /\ \A f \in DOMAIN parametersSubject \ DOMAIN p :
                    parametersSubject'[f] = parametersSubject[f]
              /\ IF subscribed = "yes"
                 THEN /\ currentParameters' = Some(parametersSubject')
                      /\ Len(microtasks') <= Len(microtasks) + 1
                      /\ \A k \in 1..Len(microtasks) : microtasks'[k] = microtasks[k]
                 ELSE UNCHANGED <<currentParameters, microtasks>>
              /\ UNCHANGED <<subscribed, svgContent>> ]_vars

C26_Witness ==
    /\ updates = 2
    /\ subscribed = "yes"
    /\ parametersSubject.shape = "polygon"
    /\ parametersSubject.edgeCount = 3
    /\ parametersSubject.fillColor = ColorOrange
    /\ parametersSubject.showBoundingBox
    /\ currentParameters = Some(parametersSubject)

\* C30: after resetToDefaults, whatever calls came before, the current
\* parameter record equals defaultSvgParameters in every field.
C30_ResetRestoresDefaults ==
    [][ ResetToDefaults => parametersSubject' = defaultSvgParameters ]_vars

\* The point lies inside or on the rectangle spanned by the corners.
InsideOutline(pt, corners) ==
    \E lo \in Range(corners), hi \in Range(corners) :
        /\ ~RLess(pt[1], lo[1]) /\ ~RLess(hi[1], pt[1])
        /\ ~RLess(pt[2], lo[2]) /\ ~RLess(hi[2], pt[2])

\* C27: when the GIS renderer draws the bounding-box outline, its corners are
\* the corners of the data's bounding box under the scale and translation
\* applied to the features, and every transformed vertex of every feature
\* lies inside or on the outline.
C27_OutlineEnclosesFeatures ==
    ( /\ call.op = "GisRendererService.generateGisMapFromData"
      /\ call.args.data = generateSampleGeoJson
      /\ call.args.params.showBoundingBox
      /\ ~call.ret.threw )
    => LET params == call.args.params
           bbox == call.args.data.bbox
           boundingBox == BoundingBoxOf(Rat(bbox[1], 1), Rat(bbox[2], 1),
                                        Rat(bbox[3], 1), Rat(bbox[4], 1))
           scale == RMul(applyScalingFunction(
                             RDiv(Rat(280, 1),
                                  RSub(boundingBox.xMax, boundingBox.centerX)),
                             RDiv(Rat(280, 1),
                                  RSub(boundingBox.yMax, boundingBox.centerY)),
                             params.scalingFunction),
                         params.scale)
           corners == transformCoordinates(
                          << <<bbox[1], bbox[2]>>, <<bbox[1], bbox[4]>>,
                             <<bbox[3], bbox[4]>>, <<bbox[3], bbox[2]>> >>,
                          boundingBox, scale, params.translateX, params.translateY)
           outline == call.ret.value.elements[1].points
       IN  /\ \A c \in Range(corners) :
                 \E o \in Range(outline) :
                     /\ ~RLess(c[1], o[1]) /\ ~RLess(o[1], c[1])
                     /\ ~RLess(c[2], o[2]) /\ ~RLess(o[2], c[2])
           /\ \A k \in DOMAIN FeaturePolygonsOf(call.ret.value) :
                 \A pt \in Range(FeaturePolygonsOf(call.ret.value)[k].points) :
                     InsideOutline(pt, outline)

\* C28: useGradient, showBoundingBox and useRandomGisColors reach the
\* generator with the value of the current parameter record: the records that
\* generateSvgElement builds for the yin-yang and the GIS generator carry
\* them unchanged, and a map generated from a record with showBoundingBox =
\* false has no outline, one with useRandomGisColors = false the configured
\* fill colour on every feature.
C28_FlagsReachGenerators ==
    /\ parametersSubject.shape = "yinyang"
       => YinYangParamsOf(parametersSubject).useGradient
            = parametersSubject.useGradient
    /\ ( parametersSubject.shape = "gis" /\ parametersSubject.gisSourceUrl = "" )
       => /\ GisParamsOf(parametersSubject).showBoundingBox
               = parametersSubject.showBoundingBox
          /\ GisParamsOf(parametersSubject).useRandomColors
               = parametersSubject.useRandomGisColors
          /\ ( svgContent.svg = "gis" /\ GeneratedFrom(parametersSubject, svgContent) )
             => /\ ~parametersSubject.showBoundingBox
                   => FeaturePolygonsOf(svgContent) = svgContent.elements
                /\ ~parametersSubject.useRandomGisColors
                   => \A e \in Range(FeaturePolygonsOf(svgContent)) :
                         e.fill = parametersSubject.fillColor

\* C29: with shape 'gis' and a non-empty gisSourceUrl the preview ends on the
\* rendered map or on the error markup for that URL.  Once every
\* regeneration has completed and no fetch of generateGisMap is in flight,
\* nothing can change the content any more, so the content of such a state
\* is final: it is not the 'Loading GIS Data...' placeholder.
C29_PlaceholderNotFinal ==
    ( /\ subscribed = "yes"
      /\ microtasks = <<>>
      /\ gis.pc \notin {"fetch", "json"}
      /\ parametersSubject.shape = "gis"
      /\ parametersSubject.gisSourceUrl # "" )
    => svgContent.svg # "gis-loading"
====
